---------------------------- MODULE Spec2Model ----------------------------
(***************************************************************************)
(* Model of the Legion Go S MCU configuration driver                       *)
(* (drivers/hid/lenovo-legos-hid/lenovo-legos-hid-config.c): the command   *)
(* engine mcu_property_out, the response path legos_cfg_raw_event and the  *)
(* sysfs property handlers built on them.                                  *)
(***************************************************************************)
EXTENDS Integers, Sequences, FiniteSets, TLC

(***************************************************************************)
(* Bounds of the model.                                                    *)
(***************************************************************************)
\* number of concurrent sysfs callers
NThreads == 2
\* requests the device may hold unanswered (the issuer has given up on all
\* but the last one)
MaxWire == 2
\* cap on send_cmd_complete.done (complete() without a waiter accumulates)
MaxDone == 2
\* largest value of the remaining jiffies a successful wait returns
MaxJiffies == 2

(***************************************************************************)
(* Program constants.                                                      *)
(***************************************************************************)
EINVAL == 22
EBUSY == 16
ENOMEM == 12
ENODEV == 19
ERANGE == 34
ERESTARTSYS == 512

\* sizeof(struct command_report): cmd + sub_cmd + data[63]
GO_S_PACKET_SIZE == 65
PAYLOAD_SIZE == 63

\* enum MCU_COMMAND
SEND_HEARTBEAT == 0
GET_VERSION == 1
GET_MCU_ID == 2
GET_GAMEPAD_CFG == 3
SET_GAMEPAD_CFG == 4
GET_TP_PARAM == 5
SET_TP_PARAM == 6
GET_MOTOR_CFG == 7
SET_MOTOR_CFG == 8
GET_TRIGGER_CFG == 9
SET_TRIGGER_CFG == 10
GET_STICK_CFG == 11
SET_STICK_CFG == 12
GET_GYRO_CFG == 13
SET_GYRO_CFG == 14
GET_LIGHT_CFG == 15
SET_LIGHT_CFG == 16
GET_KEY_MAP == 17
SET_KEY_MAP == 18
INT_EVENT_REPORT == 192
GET_PL_TEST == 223
SET_PL_TEST == 224

\* enum GAMEPAD_CFG_INDEX
NONE == 0
CFG_GAMEPAD_MODE == 1
CFG_AUTO_SLP_TIME == 4
CFG_PASS_ENABLE == 5
CFG_LIGHT_ENABLE == 6
CFG_IMU_ENABLE == 7
CFG_TPAD_ENABLE == 8
CFG_OS_TYPE == 10
CFG_POLL_RATE == 16
CFG_DPAD_MODE == 17
CFG_MS_WHEEL_STEP == 18

\* enum TOUCHPAD_CFG_INDEX
CFG_WINDOWS_MODE == 3
CFG_LINUX_MODE == 4

\* enum RGB_MODE
RGB_MODE_DYNAMIC == 0
RGB_MODE_CUSTOM == 1

\* enum LIGHT_CFG_INDEX
LIGHT_MODE_SEL == 1
LIGHT_PROFILE_SEL == 2
USR_LIGHT_PROFILE_1 == 3
USR_LIGHT_PROFILE_2 == 4
USR_LIGHT_PROFILE_3 == 5

\* enum TEST_INDEX (the entries the driver exposes)
TEST_EN == 1
TEST_TP_MFR == 2
TEST_IMU_MFR == 3
TEST_TP_VER == 4

\* the label tables; the wire value of a label is its position, from 0
GAMEPAD_MODE_TEXT == <<"xinput", "dinput">>
FEATURE_ENABLE_STATUS_TEXT == <<"false", "true">>
IMU_ENABLED_TEXT == <<"off", "on", "off-2sec">>
OS_TYPE_TEXT == <<"windows", "linux">>
POLL_RATE_TEXT == <<"125", "250", "500", "1000">>
DPAD_MODE_TEXT == <<"8-way", "4-way">>
TOUCHPAD_MODE_TEXT == <<"relative", "absolute">>
RGB_MODE_TEXT == <<"dynamic", "custom">>
RGB_EFFECT_TEXT == <<"monocolor", "breathe", "chroma", "rainbow">>
TP_MANUFACTURER_TEXT == <<"none", "BetterLife", "SIPO">>
IMU_MANUFACTURER_TEXT == <<"none", "Bosch", "ST">>

\* initial values of legos_cdev_rgb and legos_rgb_subled_info
INIT_BRIGHTNESS == 80
INIT_INTENSITY == <<36, 34, 153>>

(***************************************************************************)
(* C integer conversions.  TLC's integers are 32 bits wide, so size_t is   *)
(* kept modulo 2^30; every width of 13 bits or more gives the same results *)
(* here (error numbers and text lengths stay below 4096).                  *)
(***************************************************************************)
SIZE_MOD == 2 ^ 30

\* (size_t) x
ToSizeT(x) == x % SIZE_MOD
\* (ssize_t) c for a size_t c
ToSSizeT(c) == IF c >= SIZE_MOD \div 2 THEN c - SIZE_MOD ELSE c
\* (u8) x
ToU8(x) == x % 256

(***************************************************************************)
(* Text helpers of the kernel library.                                     *)
(***************************************************************************)
\* the decimal numbers the model can parse, and a text of digits whose
\* number fits no C integer type
NumRange == {-1, 0, 1, 2, 3, 4, 100, 101, 127, 128, 256}
HUGE_NUMBER == "99999999999999999999"
IsNumber(s) == \E n \in NumRange : ToString(n) = s
NumberOf(s) == CHOOSE n \in NumRange : ToString(n) = s

\* kstrtou8(buf, 10, &val): <<return value, val>>: -EINVAL when buf is no
\* number (a sign '-' is no digit of an unsigned one), -ERANGE when the
\* number does not fit a u8
kstrtou8(s) ==
  IF s = HUGE_NUMBER THEN <<-ERANGE, 0>>
  ELSE IF ~IsNumber(s) \/ NumberOf(s) < 0 THEN <<-EINVAL, 0>>
  ELSE IF NumberOf(s) > 255 THEN <<-ERANGE, 0>>
  ELSE <<0, NumberOf(s)>>

\* kstrtoint(buf, 10, &val): <<return value, val>>: -EINVAL when buf is no
\* number, -ERANGE when the number does not fit an int
kstrtoint(s) ==
  IF s = HUGE_NUMBER THEN <<-ERANGE, 0>>
  ELSE IF ~IsNumber(s) THEN <<-EINVAL, 0>>
  ELSE <<0, NumberOf(s)>>

\* sysfs_match_string(array, buf): the label's position from 0, or -EINVAL
sysfs_match_string(array, s) ==
  IF \E i \in 1..Len(array) : array[i] = s
  THEN (CHOOSE i \in 1..Len(array) : array[i] = s) - 1
  ELSE -EINVAL

\* sysfs_emit(buf, "%s\n", s) returns the bytes written
sysfs_emit_len(s) == Len(s) + 1


(***************************************************************************)
(* State.                                                                  *)
(***************************************************************************)
VARIABLES
  hdev_ep,        \* get_endpoint_address(drvdata.hdev)
  cfg_mutex,      \* drvdata.cfg_mutex: 0 when free, else the owning caller
  done,           \* drvdata.send_cmd_complete.done
  last_cmd_ret,   \* drvdata.last_cmd_ret
  last_cmd_val,   \* drvdata.last_cmd_val
  mcu_id,         \* drvdata.mcu_id[12]
  mcu_ver,        \* drvdata.mcu_ver[4]
  rgb_profile,    \* drvdata.rgb_profile
  rgb_effect,     \* drvdata.rgb_effect
  rgb_speed,      \* drvdata.rgb_speed
  rgb_mode,       \* drvdata.rgb_mode
  brightness,     \* drvdata.led_cdev->brightness
  intensity,      \* mc_cdev->subled_info[0..2].intensity
  th,             \* the sysfs callers: position in the handler and its locals
  wire,           \* frames the MCU received and has not answered, oldest first
  dev,            \* the stub MCU's stored configuration (round-trip stub)
  rx_ret,         \* what the last legos_cfg_raw_event returned to the transport
  \* zotac-zone-platform
  ec,             \* the EC's registers: fan control, duty, speed, temperature,
                  \* its address latch, and ec_mutex that guards its ports
  data,           \* struct zotac_fan_data
  update_lock,    \* data->update_lock: 0 when free, else its owner
  fan_curve_timer, \* the timer: armed or not, and its callback's position
  jiffies,        \* the kernel's clock
  zc,             \* the sysfs callers of the fan attributes
  module_state,   \* how far zotac_fan_exit has come
  zlog,           \* what has been written to and read from the EC so far
  \* msi-wmi-platform
  msi             \* the firmware's tables, write_lock, a debugfs file's buffer
                  \* and the callers of the MSI attributes

zvars == <<ec, data, update_lock, fan_curve_timer, jiffies, zc, module_state,
           zlog>>

vars == <<hdev_ep, cfg_mutex, done, last_cmd_ret, last_cmd_val, mcu_id, mcu_ver,
          rgb_profile, rgb_effect, rgb_speed, rgb_mode, brightness, intensity,
          th, wire, dev, rx_ret, zvars, msi>>

rgbvars == <<rgb_profile, rgb_effect, rgb_speed, rgb_mode, brightness, intensity>>
idvars == <<mcu_id, mcu_ver>>

Threads == 1..NThreads

\* endpoints an hid_device can sit on
LEGION_GO_S_CFG_INTF_IN == "cfg_intf_in"
OTHER_INTF == "other_intf"

(***************************************************************************)
(* struct command_report                                                   *)
(***************************************************************************)
Zeros(n) == [i \in 1..n |-> 0]

\* u8 outbuf[GO_S_PACKET_SIZE] = { command, index }; outbuf[i + 2] = val[i]
\* for i < size.  data[k] of the C struct is data[k + 1] here.
Frame(cmd, sub, val, size) ==
  [cmd |-> cmd, sub_cmd |-> sub,
   data |-> [i \in 1..PAYLOAD_SIZE |-> IF i <= size THEN val[i] ELSE 0]]

FrameSize(f) == 2 + Len(f.data)

(***************************************************************************)
(* legos_cfg_raw_event: the response path.  It takes no lock and does not  *)
(* wait.                                                                   *)
(***************************************************************************)
SetCommands == {SET_GAMEPAD_CFG, SET_GYRO_CFG, SET_KEY_MAP, SET_LIGHT_CFG,
                SET_MOTOR_CFG, SET_STICK_CFG, SET_TP_PARAM, SET_TRIGGER_CFG}
UnsupportedGets == {GET_GYRO_CFG, GET_KEY_MAP, GET_MOTOR_CFG, GET_STICK_CFG,
                    GET_TRIGGER_CFG}
TestValueIndexes == {TEST_TP_MFR, TEST_IMU_MFR, TEST_TP_VER}
ProfileIndexes == {USR_LIGHT_PROFILE_1, USR_LIGHT_PROFILE_2, USR_LIGHT_PROFILE_3}

\* the frames whose data[0] is stored in last_cmd_val
RawSetsVal(f) ==
  \/ f.cmd \in {GET_GAMEPAD_CFG, GET_TP_PARAM}
  \/ f.cmd = GET_PL_TEST /\ f.sub_cmd \in TestValueIndexes

\* a switch that takes what it does not support for a success
RawCmdRet_lenient(f) == IF f.cmd \in SetCommands THEN f.data[1] ELSE 0

\* the value the switch leaves in last_cmd_ret
RawCmdRet(f) ==
  CASE f.cmd \in {GET_VERSION, GET_MCU_ID, GET_GAMEPAD_CFG, GET_TP_PARAM} -> 0
    [] f.cmd = GET_PL_TEST ->
         IF f.sub_cmd \in TestValueIndexes THEN 0 ELSE EINVAL
    [] f.cmd = GET_LIGHT_CFG ->
         IF f.sub_cmd \in {LIGHT_MODE_SEL, LIGHT_PROFILE_SEL} \cup ProfileIndexes
         THEN 0 ELSE EINVAL
    [] f.cmd \in UnsupportedGets -> EINVAL
    [] f.cmd \in SetCommands -> f.data[1]
    [] OTHER -> EINVAL

\* a completion that forgets it was fired
complete_lost(d) == d

\* complete(&drvdata.send_cmd_complete)
complete(d) == d + 1

\* the body of legos_cfg_raw_event after the size check
RawEventBody(f) ==
  /\ mcu_ver' = IF f.cmd = GET_VERSION
                THEN <<f.data[3], f.data[2], f.data[1], f.sub_cmd>>
                ELSE mcu_ver
  /\ mcu_id' = IF f.cmd = GET_MCU_ID
               THEN <<f.sub_cmd>> \o SubSeq(f.data, 1, 11)
               ELSE mcu_id
  /\ last_cmd_val' = IF RawSetsVal(f) THEN f.data[1] ELSE last_cmd_val
  /\ last_cmd_ret' = RawCmdRet(f)
  /\ rgb_mode' = IF f.cmd = GET_LIGHT_CFG /\ f.sub_cmd = LIGHT_MODE_SEL
                 THEN f.data[1] ELSE rgb_mode
  /\ rgb_profile' = IF f.cmd = GET_LIGHT_CFG /\ f.sub_cmd = LIGHT_PROFILE_SEL
                    THEN f.data[1] ELSE rgb_profile
  /\ IF f.cmd = GET_LIGHT_CFG /\ f.sub_cmd \in ProfileIndexes
     THEN /\ rgb_effect' = f.data[1]
          /\ intensity' = <<f.data[2], f.data[3], f.data[4]>>
          /\ brightness' = f.data[5]
          /\ rgb_speed' = f.data[6]
     ELSE UNCHANGED <<rgb_effect, intensity, brightness, rgb_speed>>
  /\ done' = complete(done)
  /\ rx_ret' = -last_cmd_ret'

\* a size check that fails the pending call instead of returning
RawEventBadSize_signal ==
  /\ rx_ret' = -EINVAL
  /\ last_cmd_ret' = EINVAL
  /\ done' = complete(done)
  /\ UNCHANGED <<last_cmd_val, idvars, rgbvars>>

\* what a frame of the wrong size does
RawEventBadSize ==
  /\ rx_ret' = -EINVAL
  /\ UNCHANGED <<done, last_cmd_ret, last_cmd_val, idvars, rgbvars>>

\* int legos_cfg_raw_event(u8 *data, int size)
legos_cfg_raw_event(f, size) ==
  IF size # GO_S_PACKET_SIZE THEN RawEventBadSize ELSE RawEventBody(f)

(***************************************************************************)
(* The sysfs callers.  pc is the caller's position:                        *)
(*   idle      not in a handler                                            *)
(*   rgb_attr  in an RGB setter, before rgb_attr_store                     *)
(*   lock      in mcu_property_out, before mutex_lock                      *)
(*   send      holds cfg_mutex, before legos_cfg_send_cmd                  *)
(*   wait      in wait_for_completion_interruptible_timeout                *)
(*   reinit    the wait has ended, before reinit_completion / mutex_unlock *)
(*   consume   back in the handler, before it reads last_cmd_ret           *)
(*   consume2  before the handler's second read of the response            *)
(*   done      the handler has returned result (and rendered text)         *)
(* tx records whether the request was transmitted, woke how the wait ended,*)
(* own the <<last_cmd_ret, last_cmd_val, data[0]>> of the response to the  *)
(* caller's own request, short that this response had the wrong size, and  *)
(* prev the call the caller made before.                                   *)
(***************************************************************************)
IdleRec ==
  [pc |-> "idle", fn |-> "none", index |-> 0, buf |-> "", count |-> 0,
   cmd |-> 0, sub |-> 0, val |-> <<>>, size |-> 0, ret |-> 0,
   woke |-> "none", tx |-> "none", own |-> <<>>, short |-> FALSE,
   result |-> 0, text |-> "", prev |-> <<>>]

\* the handler returns: the request's locals are dead
Return(rec, result, text) ==
  [rec EXCEPT !.pc = "done", !.result = result, !.text = text,
              !.cmd = 0, !.sub = 0, !.val = <<>>, !.size = 0]

\* mcu_property_out up to the lock: the endpoint check
mcu_property_out_enter(rec, cmd, sub, val, size) ==
  IF hdev_ep # LEGION_GO_S_CFG_INTF_IN
  THEN [rec EXCEPT !.ret = -ENODEV, !.pc = "consume"]
  ELSE [rec EXCEPT !.cmd = cmd, !.sub = sub, !.val = val, !.size = size,
                   !.pc = "lock"]

\* a lock that does not exclude
mutex_free_nolock(t) == TRUE

\* mutex_lock(&drvdata.cfg_mutex)
mutex_free(t) == cfg_mutex = 0

\* mutex_lock; last_cmd_ret = 0; last_cmd_val = 0
mcu_property_out_lock(t) ==
  /\ th[t].pc = "lock"
  /\ mutex_free(t)
  /\ cfg_mutex' = t
  /\ last_cmd_ret' = 0
  /\ last_cmd_val' = 0
  /\ th' = [th EXCEPT ![t].pc = "send"]
  /\ UNCHANGED <<msi, zvars, hdev_ep, done, idvars, rgbvars, wire, dev, rx_ret>>

\* legos_cfg_send_cmd: kmemdup succeeded or not, and what
\* hid_hw_output_report returned
legos_cfg_send_cmd(dmabuf_ok, hw_ret) ==
  IF ~dmabuf_ok THEN -ENOMEM
  ELSE IF hw_ret # GO_S_PACKET_SIZE THEN -EINVAL
  ELSE 0

\* a failed send that returns with the mutex held
SendFailMutex_held(t) == cfg_mutex

\* the mutex after a failed send
SendFailMutex(t) == 0

\* ret = legos_cfg_send_cmd(...); if (ret) { mutex_unlock; return ret; }
mcu_property_out_send(t, dmabuf_ok, hw_ret) ==
  LET ret == legos_cfg_send_cmd(dmabuf_ok, hw_ret)
      transmitted == dmabuf_ok /\ hw_ret = GO_S_PACKET_SIZE
      f == Frame(th[t].cmd, th[t].sub, th[t].val, th[t].size)
  IN
  /\ th[t].pc = "send"
  /\ transmitted => Len(wire) < MaxWire
  /\ wire' = IF transmitted THEN Append(wire, [frame |-> f, by |-> t]) ELSE wire
  /\ IF ret # 0
     THEN /\ cfg_mutex' = SendFailMutex(t)
          /\ th' = [th EXCEPT ![t].pc = "consume", ![t].ret = ret,
                              ![t].tx = "fail"]
     ELSE /\ cfg_mutex' = cfg_mutex
          /\ th' = [th EXCEPT ![t].pc = "wait", ![t].tx = "ok"]
  /\ UNCHANGED <<msi, zvars, hdev_ep, done, last_cmd_ret, last_cmd_val, idvars, rgbvars,
                 dev, rx_ret>>

\* the remaining jiffies returned as they are
WaitRet_jiffies(w) == IF w = 0 THEN -EBUSY ELSE w

\* lines 420-423: what mcu_property_out makes of the wait's return value
WaitRet(w) == IF w = 0 THEN -EBUSY ELSE IF w > 0 THEN 0 ELSE w

\* wait_for_completion_interruptible_timeout returns w > 0: the completion
\* was fired (done > 0), and the wait consumes it
mcu_property_out_wait_fired(t, w) ==
  /\ th[t].pc = "wait"
  /\ done > 0
  /\ done' = done - 1
  /\ th' = [th EXCEPT ![t].pc = "reinit", ![t].ret = WaitRet(w),
                      ![t].woke = "fired"]
  /\ UNCHANGED <<msi, zvars, hdev_ep, cfg_mutex, last_cmd_ret, last_cmd_val, idvars,
                 rgbvars, wire, dev, rx_ret>>

\* the wait returns 0: the 5 ms expired with the completion not fired
mcu_property_out_wait_timeout(t) ==
  /\ th[t].pc = "wait"
  /\ done = 0
  /\ th' = [th EXCEPT ![t].pc = "reinit", ![t].ret = WaitRet(0),
                      ![t].woke = "timeout"]
  /\ UNCHANGED <<msi, zvars, hdev_ep, cfg_mutex, done, last_cmd_ret, last_cmd_val, idvars,
                 rgbvars, wire, dev, rx_ret>>

\* the wait returns -ERESTARTSYS: a signal interrupted it
mcu_property_out_wait_interrupted(t) ==
  /\ th[t].pc = "wait"
  /\ done = 0
  /\ th' = [th EXCEPT ![t].pc = "reinit", ![t].ret = WaitRet(-ERESTARTSYS),
                      ![t].woke = "intr"]
  /\ UNCHANGED <<msi, zvars, hdev_ep, cfg_mutex, done, last_cmd_ret, last_cmd_val, idvars,
                 rgbvars, wire, dev, rx_ret>>

\* reinit_completion; mutex_unlock; return ret
mcu_property_out_unlock(t) ==
  /\ th[t].pc = "reinit"
  /\ done' = 0
  /\ cfg_mutex' = 0
  /\ th' = [th EXCEPT ![t].pc = "consume"]
  /\ UNCHANGED <<msi, zvars, hdev_ep, last_cmd_ret, last_cmd_val, idvars, rgbvars, wire,
                 dev, rx_ret>>

(***************************************************************************)
(* The property handlers: parsing on store, rendering on show.             *)
(***************************************************************************)
\* label positions counted from 1
MatchVal_onebased(array, buf) ==
  LET r == sysfs_match_string(array, buf)
  IN IF r < 0 THEN <<r, 0>> ELSE <<0, ToU8(r + 1)>>

\* ret = sysfs_match_string(TEXT, buf); if (ret < 0) return ret; val = ret
MatchVal(array, buf) ==
  LET r == sysfs_match_string(array, buf)
  IN IF r < 0 THEN <<r, 0>> ELSE <<0, ToU8(r)>>

\* no range check
WheelStepOk_any(val) == TRUE

\* the range check of CFG_MS_WHEEL_STEP
WheelStepOk(val) == ~(val < 1 \/ val > 127)

\* the switch of gamepad_property_store: <<error or 0, val>>
gamepad_property_store_parse(index, buf) ==
  CASE index = CFG_GAMEPAD_MODE -> MatchVal(GAMEPAD_MODE_TEXT, buf)
    [] index = CFG_AUTO_SLP_TIME ->
         \* ret = kstrtou8(buf, 10, &val); if (ret) return ret; val = ret;
         LET k == kstrtou8(buf)
         IN IF k[1] # 0 THEN <<k[1], 0>> ELSE <<0, ToU8(k[1])>>
    [] index = CFG_IMU_ENABLE -> MatchVal(IMU_ENABLED_TEXT, buf)
    [] index \in {CFG_PASS_ENABLE, CFG_LIGHT_ENABLE, CFG_TPAD_ENABLE} ->
         MatchVal(FEATURE_ENABLE_STATUS_TEXT, buf)
    [] index = CFG_OS_TYPE -> MatchVal(OS_TYPE_TEXT, buf)
    [] index = CFG_POLL_RATE -> MatchVal(POLL_RATE_TEXT, buf)
    [] index = CFG_DPAD_MODE -> MatchVal(DPAD_MODE_TEXT, buf)
    [] index = CFG_MS_WHEEL_STEP ->
         LET k == kstrtou8(buf)
         IN IF k[1] # 0 THEN <<k[1], 0>>
            ELSE IF ~WheelStepOk(k[2]) THEN <<-EINVAL, 0>>
            ELSE <<0, k[2]>>
    [] OTHER -> <<-EINVAL, 0>>

\* the switch of touchpad_property_store
touchpad_property_store_parse(index, buf) ==
  CASE index \in {CFG_WINDOWS_MODE, CFG_LINUX_MODE} ->
         MatchVal(TOUCHPAD_MODE_TEXT, buf)
    [] OTHER -> <<-EINVAL, 0>>

\* if (!val) size = 0
PayloadSize(val) == IF val = 0 THEN 0 ELSE 1

\* if (i > LAST) count = -EINVAL; else count = sysfs_emit(buf, "%s\n", TEXT[i]):
\* <<count as size_t, text>>
EmitLabel(array, i) ==
  IF i > Len(array) - 1 THEN <<ToSizeT(-EINVAL), "">>
  ELSE <<sysfs_emit_len(array[i + 1]), array[i + 1]>>

\* count = sysfs_emit(buf, "%u\n", i)
EmitNumber(i) == <<sysfs_emit_len(ToString(i)), ToString(i)>>

\* the switch of gamepad_property_show on i = last_cmd_val
gamepad_property_show_render(index, i) ==
  CASE index = CFG_GAMEPAD_MODE -> EmitLabel(GAMEPAD_MODE_TEXT, i)
    [] index = CFG_AUTO_SLP_TIME -> EmitNumber(i)
    [] index = CFG_IMU_ENABLE -> EmitLabel(IMU_ENABLED_TEXT, i)
    [] index \in {CFG_PASS_ENABLE, CFG_LIGHT_ENABLE, CFG_TPAD_ENABLE} ->
         EmitLabel(FEATURE_ENABLE_STATUS_TEXT, i)
    [] index = CFG_OS_TYPE -> EmitLabel(OS_TYPE_TEXT, i)
    [] index = CFG_POLL_RATE -> EmitLabel(POLL_RATE_TEXT, i)
    [] index = CFG_DPAD_MODE -> EmitLabel(DPAD_MODE_TEXT, i)
    [] index = CFG_MS_WHEEL_STEP ->
         IF i < 1 \/ i > 127 THEN <<ToSizeT(-EINVAL), "">> ELSE EmitNumber(i)
    [] OTHER -> <<ToSizeT(-EINVAL), "">>

\* the switch of touchpad_property_show
touchpad_property_show_render(index, i) ==
  CASE index \in {CFG_WINDOWS_MODE, CFG_LINUX_MODE} ->
         EmitLabel(TOUCHPAD_MODE_TEXT, i)
    [] OTHER -> <<ToSizeT(-EINVAL), "">>

\* the switch of test_property_show
test_property_show_render(index, i) ==
  CASE index = TEST_TP_MFR -> EmitLabel(TP_MANUFACTURER_TEXT, i)
    [] index = TEST_IMU_MFR -> EmitLabel(IMU_MANUFACTURER_TEXT, i)
    [] index = TEST_TP_VER -> EmitNumber(i)
    [] OTHER -> <<ToSizeT(-EINVAL), "">>

StoreFns == {"gamepad_property_store", "touchpad_property_store"}
ShowFns == {"gamepad_property_show", "touchpad_property_show",
            "test_property_show"}

ShowCmd(fn) ==
  CASE fn = "gamepad_property_show" -> GET_GAMEPAD_CFG
    [] fn = "touchpad_property_show" -> GET_TP_PARAM
    [] fn = "test_property_show" -> GET_PL_TEST

ShowRender(fn, index, i) ==
  CASE fn = "gamepad_property_show" -> gamepad_property_show_render(index, i)
    [] fn = "touchpad_property_show" -> touchpad_property_show_render(index, i)
    [] fn = "test_property_show" -> test_property_show_render(index, i)

StoreCmd(fn) ==
  CASE fn = "gamepad_property_store" -> SET_GAMEPAD_CFG
    [] fn = "touchpad_property_store" -> SET_TP_PARAM

StoreParse(fn, index, buf) ==
  CASE fn = "gamepad_property_store" -> gamepad_property_store_parse(index, buf)
    [] fn = "touchpad_property_store" ->
         touchpad_property_store_parse(index, buf)

\* a fresh call of handler fn with input buf of count bytes
NewCall(t, fn, index, buf) ==
  [IdleRec EXCEPT !.fn = fn, !.index = index, !.buf = buf, !.count = Len(buf),
                  !.prev = th[t].prev]

Ready(t) == th[t].pc = "idle"

\* gamepad_property_store / touchpad_property_store up to mcu_property_out
property_store(t, fn, index, buf) ==
  LET p == StoreParse(fn, index, buf)
      rec == NewCall(t, fn, index, buf)
  IN
  /\ Ready(t)
  /\ th' = [th EXCEPT ![t] =
              IF p[1] # 0 THEN Return(rec, p[1], "")
              ELSE mcu_property_out_enter(rec, StoreCmd(fn), index, <<p[2]>>,
                                          PayloadSize(p[2]))]
  /\ UNCHANGED <<msi, zvars, hdev_ep, cfg_mutex, done, last_cmd_ret, last_cmd_val, idvars,
                 rgbvars, wire, dev, rx_ret>>

\* gamepad_property_show / touchpad_property_show / test_property_show up to
\* mcu_property_out(hdev, GET_..., index, 0, 0)
property_show(t, fn, index) ==
  /\ Ready(t)
  /\ th' = [th EXCEPT ![t] =
              mcu_property_out_enter(NewCall(t, fn, index, ""), ShowCmd(fn),
                                     index, <<>>, 0)]
  /\ UNCHANGED <<msi, zvars, hdev_ep, cfg_mutex, done, last_cmd_ret, last_cmd_val, idvars,
                 rgbvars, wire, dev, rx_ret>>

\* ret = mcu_property_out(...); if (ret < 0) return ret;
\* if (drvdata.last_cmd_ret) return -drvdata.last_cmd_ret; return count;
StoreResult(ret, cmd_ret, count) ==
  IF ret < 0 THEN ret
  ELSE IF cmd_ret # 0 THEN -cmd_ret
  ELSE count

property_store_ret(t) ==
  /\ th[t].pc = "consume"
  /\ th[t].fn \in StoreFns
  /\ th' = [th EXCEPT ![t] =
              Return(@, StoreResult(th[t].ret, last_cmd_ret, th[t].count), "")]
  /\ UNCHANGED <<msi, zvars, hdev_ep, cfg_mutex, done, last_cmd_ret, last_cmd_val, idvars,
                 rgbvars, wire, dev, rx_ret>>

\* size_t count = mcu_property_out(...); if (count < 0) return count;
\* (count is unsigned)
ShowEngineFailed(count) == count < 0

\* the show handlers up to i = drvdata.last_cmd_val
property_show_ret(t) ==
  LET count == ToSizeT(th[t].ret)
  IN
  /\ th[t].pc = "consume"
  /\ th[t].fn \in ShowFns
  /\ th' = [th EXCEPT ![t] =
              IF ShowEngineFailed(count) THEN Return(@, ToSSizeT(count), "")
              ELSE IF last_cmd_ret # 0 THEN Return(@, -last_cmd_ret, "")
              ELSE [@ EXCEPT !.pc = "consume2"]]
  /\ UNCHANGED <<msi, zvars, hdev_ep, cfg_mutex, done, last_cmd_ret, last_cmd_val, idvars,
                 rgbvars, wire, dev, rx_ret>>

\* i = drvdata.last_cmd_val; switch (index) ...; return count
property_show_val(t) ==
  LET r == ShowRender(th[t].fn, th[t].index, last_cmd_val)
  IN
  /\ th[t].pc = "consume2"
  /\ th[t].fn \in ShowFns
  /\ th' = [th EXCEPT ![t] = Return(@, ToSSizeT(r[1]), r[2])]
  /\ UNCHANGED <<msi, zvars, hdev_ep, cfg_mutex, done, last_cmd_ret, last_cmd_val, idvars,
                 rgbvars, wire, dev, rx_ret>>

(***************************************************************************)
(* The RGB setters.                                                        *)
(***************************************************************************)
RgbAttrFns == {"rgb_effect_store", "rgb_speed_store"}
RgbStoreFns == RgbAttrFns \cup {"rgb_mode_store", "rgb_profile_store"}

\* the range check of rgb_speed_store
SpeedOk(val) == ~(val > 100 \/ val < 0)
\* the range check of rgb_profile_store
ProfileOk(val) == ~(val > 3 \/ val < 1)

\* rgb_cfg_call up to mcu_property_out
rgb_cfg_call_enter(rec, cmd, index, val, size) ==
  IF cmd # GET_LIGHT_CFG /\ cmd # SET_LIGHT_CFG THEN Return(rec, -EINVAL, "")
  ELSE IF index < LIGHT_MODE_SEL \/ index > USR_LIGHT_PROFILE_3
  THEN Return(rec, -EINVAL, "")
  ELSE mcu_property_out_enter(rec, cmd, index, val, size)

\* rgb_effect_store up to rgb_attr_store
rgb_effect_store(t, buf) ==
  LET r == sysfs_match_string(RGB_EFFECT_TEXT, buf)
      rec == NewCall(t, "rgb_effect_store", 0, buf)
  IN
  /\ Ready(t)
  /\ IF r < 0
     THEN /\ th' = [th EXCEPT ![t] = Return(rec, r, "")]
          /\ rgb_effect' = rgb_effect
     ELSE /\ th' = [th EXCEPT ![t] = [rec EXCEPT !.pc = "rgb_attr"]]
          /\ rgb_effect' = ToU8(r)
  /\ UNCHANGED <<msi, zvars, hdev_ep, cfg_mutex, done, last_cmd_ret, last_cmd_val, idvars,
                 rgb_profile, rgb_speed, rgb_mode, brightness, intensity,
                 wire, dev, rx_ret>>

\* rgb_speed_store up to rgb_attr_store
rgb_speed_store(t, buf) ==
  LET k == kstrtoint(buf)
      rec == NewCall(t, "rgb_speed_store", 0, buf)
      err == IF k[1] # 0 THEN k[1] ELSE IF ~SpeedOk(k[2]) THEN -EINVAL ELSE 0
  IN
  /\ Ready(t)
  /\ IF err # 0
     THEN /\ th' = [th EXCEPT ![t] = Return(rec, err, "")]
          /\ rgb_speed' = rgb_speed
     ELSE /\ th' = [th EXCEPT ![t] = [rec EXCEPT !.pc = "rgb_attr"]]
          /\ rgb_speed' = ToU8(k[2])
  /\ UNCHANGED <<msi, zvars, hdev_ep, cfg_mutex, done, last_cmd_ret, last_cmd_val, idvars,
                 rgb_profile, rgb_effect, rgb_mode, brightness, intensity,
                 wire, dev, rx_ret>>

\* a payload with brightness and speed in each other's place
rgb_write_profile_swapped ==
  <<rgb_effect, intensity[1], intensity[2], intensity[3], rgb_speed, brightness>>

\* u8 rgb_profile[6] of rgb_write_profile
rgb_write_profile ==
  <<rgb_effect, intensity[1], intensity[2], intensity[3], brightness, rgb_speed>>

\* rgb_attr_store up to mcu_property_out: the mode gate, rgb_write_profile,
\* rgb_profile_call (index = rgb_profile + 2) and rgb_cfg_call
rgb_attr_store(t) ==
  /\ th[t].pc = "rgb_attr"
  /\ th' = [th EXCEPT ![t] =
              IF rgb_mode # RGB_MODE_CUSTOM THEN Return(@, -EINVAL, "")
              ELSE rgb_cfg_call_enter(@, SET_LIGHT_CFG, rgb_profile + 2,
                                      rgb_write_profile, 6)]
  /\ UNCHANGED <<msi, zvars, hdev_ep, cfg_mutex, done, last_cmd_ret, last_cmd_val, idvars,
                 rgbvars, wire, dev, rx_ret>>

\* rgb_mode_store up to mcu_property_out
rgb_mode_store(t, buf) ==
  LET r == sysfs_match_string(RGB_MODE_TEXT, buf)
      rec == NewCall(t, "rgb_mode_store", 0, buf)
  IN
  /\ Ready(t)
  /\ IF r < 0
     THEN /\ th' = [th EXCEPT ![t] = Return(rec, r, "")]
          /\ rgb_mode' = rgb_mode
     ELSE /\ th' = [th EXCEPT ![t] =
                      rgb_cfg_call_enter(rec, SET_LIGHT_CFG, LIGHT_MODE_SEL,
                                         <<ToU8(r)>>, PayloadSize(ToU8(r)))]
          /\ rgb_mode' = ToU8(r)
  /\ UNCHANGED <<msi, zvars, hdev_ep, cfg_mutex, done, last_cmd_ret, last_cmd_val, idvars,
                 rgb_profile, rgb_effect, rgb_speed, brightness, intensity,
                 wire, dev, rx_ret>>

\* rgb_profile_store up to mcu_property_out
rgb_profile_store(t, buf) ==
  LET k == kstrtou8(buf)
      rec == NewCall(t, "rgb_profile_store", 0, buf)
      err == IF k[1] < 0 THEN k[1] ELSE IF ~ProfileOk(k[2]) THEN -EINVAL ELSE 0
  IN
  /\ Ready(t)
  /\ IF err # 0
     THEN /\ th' = [th EXCEPT ![t] = Return(rec, err, "")]
          /\ rgb_profile' = rgb_profile
     ELSE /\ th' = [th EXCEPT ![t] =
                      rgb_cfg_call_enter(rec, SET_LIGHT_CFG, LIGHT_PROFILE_SEL,
                                         <<k[2]>>, PayloadSize(k[2]))]
          /\ rgb_profile' = k[2]
  /\ UNCHANGED <<msi, zvars, hdev_ep, cfg_mutex, done, last_cmd_ret, last_cmd_val, idvars,
                 rgb_effect, rgb_speed, rgb_mode, brightness, intensity,
                 wire, dev, rx_ret>>

\* rgb_cfg_call after mcu_property_out: if (ret) return ret;
\* if (drvdata.last_cmd_ret) return -drvdata.last_cmd_ret; return 0
RgbCfgCallResult(ret, cmd_ret) ==
  IF ret # 0 THEN ret ELSE IF cmd_ret # 0 THEN -cmd_ret ELSE 0

\* the setter after rgb_cfg_call returned r: if (ret < 0) return ret;
rgb_cfg_call_ret(t) ==
  LET r == RgbCfgCallResult(th[t].ret, last_cmd_ret)
  IN
  /\ th[t].pc = "consume"
  /\ th[t].fn \in RgbStoreFns
  /\ th' = [th EXCEPT ![t] =
              IF r < 0 THEN Return(@, r, "") ELSE [@ EXCEPT !.pc = "consume2"]]
  /\ UNCHANGED <<msi, zvars, hdev_ep, cfg_mutex, done, last_cmd_ret, last_cmd_val, idvars,
                 rgbvars, wire, dev, rx_ret>>

\* the setter's own read: if (drvdata.last_cmd_ret) return
\* -drvdata.last_cmd_ret; return count  (rgb_attr_store returns 0 and its
\* caller count)
rgb_store_ret(t) ==
  /\ th[t].pc = "consume2"
  /\ th[t].fn \in RgbStoreFns
  /\ th' = [th EXCEPT ![t] =
              Return(@, IF last_cmd_ret # 0 THEN -last_cmd_ret
                        ELSE th[t].count, "")]
  /\ UNCHANGED <<msi, zvars, hdev_ep, cfg_mutex, done, last_cmd_ret, last_cmd_val, idvars,
                 rgbvars, wire, dev, rx_ret>>

(***************************************************************************)
(* The RGB getters.                                                        *)
(***************************************************************************)
RgbProfileShowFns == {"rgb_effect_show", "rgb_speed_show"}
RgbShowFns == RgbProfileShowFns \cup {"rgb_mode_show", "rgb_profile_show"}

\* rgb_mode_show up to mcu_property_out
rgb_mode_show(t) ==
  /\ Ready(t)
  /\ th' = [th EXCEPT ![t] =
              rgb_cfg_call_enter(NewCall(t, "rgb_mode_show", 0, ""),
                                 GET_LIGHT_CFG, LIGHT_MODE_SEL, <<>>, 0)]
  /\ UNCHANGED <<msi, zvars, hdev_ep, cfg_mutex, done, last_cmd_ret, last_cmd_val, idvars,
                 rgbvars, wire, dev, rx_ret>>

\* rgb_profile_show up to mcu_property_out
rgb_profile_show(t) ==
  /\ Ready(t)
  /\ th' = [th EXCEPT ![t] =
              rgb_cfg_call_enter(NewCall(t, "rgb_profile_show", 0, ""),
                                 GET_LIGHT_CFG, LIGHT_PROFILE_SEL, <<>>, 0)]
  /\ UNCHANGED <<msi, zvars, hdev_ep, cfg_mutex, done, last_cmd_ret, last_cmd_val, idvars,
                 rgbvars, wire, dev, rx_ret>>

\* rgb_effect_show / rgb_speed_show: rgb_attr_show up to mcu_property_out,
\* through rgb_profile_call (index = rgb_profile + 2) and rgb_cfg_call
rgb_attr_show(t, fn) ==
  /\ Ready(t)
  /\ fn \in RgbProfileShowFns
  /\ th' = [th EXCEPT ![t] =
              rgb_cfg_call_enter(NewCall(t, fn, 0, ""), GET_LIGHT_CFG,
                                 rgb_profile + 2, <<>>, 0)]
  /\ UNCHANGED <<msi, zvars, hdev_ep, cfg_mutex, done, last_cmd_ret, last_cmd_val, idvars,
                 rgbvars, wire, dev, rx_ret>>

\* the getter after rgb_cfg_call returned r: if (ret < 0) return ret;
rgb_show_ret(t) ==
  LET r == RgbCfgCallResult(th[t].ret, last_cmd_ret)
  IN
  /\ th[t].pc = "consume"
  /\ th[t].fn \in RgbShowFns
  /\ th' = [th EXCEPT ![t] =
              IF r < 0 THEN Return(@, r, "") ELSE [@ EXCEPT !.pc = "consume2"]]
  /\ UNCHANGED <<msi, zvars, hdev_ep, cfg_mutex, done, last_cmd_ret, last_cmd_val, idvars,
                 rgbvars, wire, dev, rx_ret>>

\* what reading past the end of a label array can print: the pointer found
\* there is null, is no address, or points at some other text; or the read
\* faults and the handler never returns
OOPS == "<oops>"
OutOfBounds == {"(null)", "(efault)", "<other text>", OOPS}

\* sysfs_emit(buf, "%s\n", array[i]) with no test of i: the texts it can print
UncheckedLabel(array, i) ==
  IF i < Len(array) THEN {array[i + 1]} ELSE OutOfBounds

\* the texts the getter can print from the cached value
RgbShowTexts(fn) ==
  CASE fn = "rgb_mode_show" -> UncheckedLabel(RGB_MODE_TEXT, rgb_mode)
    [] fn = "rgb_effect_show" -> UncheckedLabel(RGB_EFFECT_TEXT, rgb_effect)
    [] fn = "rgb_speed_show" -> {ToString(rgb_speed)}
    [] fn = "rgb_profile_show" -> {ToString(rgb_profile)}

\* the getter's own read: if (drvdata.last_cmd_ret) return
\* -drvdata.last_cmd_ret; return sysfs_emit(buf, ..., the cached value)
rgb_show_val(t) ==
  /\ th[t].pc = "consume2"
  /\ th[t].fn \in RgbShowFns
  /\ IF last_cmd_ret # 0
     THEN th' = [th EXCEPT ![t] = Return(@, -last_cmd_ret, "")]
     ELSE \E text \in RgbShowTexts(th[t].fn) :
            th' = [th EXCEPT ![t] =
                     IF text = OOPS THEN [@ EXCEPT !.pc = "oops"]
                     ELSE Return(@, sysfs_emit_len(text), text)]
  /\ UNCHANGED <<msi, zvars, hdev_ep, cfg_mutex, done, last_cmd_ret, last_cmd_val, idvars,
                 rgbvars, wire, dev, rx_ret>>

(***************************************************************************)
(* The caller leaves the handler.                                          *)
(***************************************************************************)
\* the result has been handed to user space
Finish(t) ==
  /\ th[t].pc = "done"
  /\ th' = [th EXCEPT ![t] = IdleRec]
  /\ UNCHANGED <<msi, zvars, hdev_ep, cfg_mutex, done, last_cmd_ret, last_cmd_val, idvars,
                 rgbvars, wire, dev, rx_ret>>

\* the same, the caller remembering the call it made
FinishRemember(t) ==
  /\ th[t].pc = "done"
  /\ th' = [th EXCEPT ![t] =
              [IdleRec EXCEPT !.prev = <<th[t].fn, th[t].index, th[t].buf,
                                         th[t].result>>]]
  /\ UNCHANGED <<msi, zvars, hdev_ep, cfg_mutex, done, last_cmd_ret, last_cmd_val, idvars,
                 rgbvars, wire, dev, rx_ret>>

(***************************************************************************)
(* The MCU and the transport: frames delivered to legos_cfg_raw_event.     *)
(***************************************************************************)
\* the request q is the one its issuer is waiting on
Live(q, rest) ==
  /\ th[q.by].pc = "wait"
  /\ \A i \in 1..Len(rest) : rest[i].by # q.by

\* the MCU's answer to request frame r with content byte b: the command is
\* echoed; identity answers carry data in sub_cmd as well
Response(r, b) ==
  Frame(r.cmd, IF r.cmd \in {GET_VERSION, GET_MCU_ID} THEN b ELSE r.sub_cmd,
        [i \in 1..11 |-> b], IF r.cmd \in {GET_VERSION, GET_MCU_ID} THEN 11
                             ELSE IF r.sub_cmd \in ProfileIndexes
                                     /\ r.cmd = GET_LIGHT_CFG THEN 6
                             ELSE 1)

\* what the issuer of q learns from the frame just handled
OwnResponse(q, f, size) ==
  IF ~Live(q, Tail(wire)) THEN th
  ELSE IF size = GO_S_PACKET_SIZE
  THEN [th EXCEPT ![q.by].own = <<last_cmd_ret', last_cmd_val', f.data[1]>>]
  ELSE [th EXCEPT ![q.by].short = TRUE]

\* the MCU answers its oldest request; the transport delivers size bytes
DeviceRespond(b, size) ==
  LET q == Head(wire)
      f == Response(q.frame, b)
  IN
  /\ wire # <<>>
  /\ done < MaxDone
  /\ legos_cfg_raw_event(f, size)
  /\ th' = OwnResponse(q, f, size)
  /\ wire' = Tail(wire)
  /\ UNCHANGED <<msi, zvars, hdev_ep, cfg_mutex, dev>>

\* the MCU never answers its oldest request
DeviceDrop ==
  /\ wire # <<>>
  /\ wire' = Tail(wire)
  /\ UNCHANGED <<msi, zvars, hdev_ep, cfg_mutex, done, last_cmd_ret, last_cmd_val, idvars,
                 rgbvars, th, dev, rx_ret>>

\* a frame nobody asked for reaches legos_cfg_raw_event
RawNoise(f, size) ==
  /\ done < MaxDone
  /\ legos_cfg_raw_event(f, size)
  /\ UNCHANGED <<msi, zvars, hdev_ep, cfg_mutex, th, wire, dev>>

\* the stub MCU: a SET stores data[0] and is acknowledged with status 0, a
\* GET returns the stored value
StubKeys == {SET_GAMEPAD_CFG, SET_TP_PARAM} \X (0..18)
StubKey(r) ==
  <<IF r.cmd \in {GET_GAMEPAD_CFG, SET_GAMEPAD_CFG} THEN SET_GAMEPAD_CFG
    ELSE SET_TP_PARAM, r.sub_cmd>>

StubRespond ==
  LET q == Head(wire)
      r == q.frame
      isSet == r.cmd \in {SET_GAMEPAD_CFG, SET_TP_PARAM}
      f == Frame(r.cmd, r.sub_cmd, <<IF isSet THEN 0 ELSE dev[StubKey(r)]>>, 1)
  IN
  /\ wire # <<>>
  /\ r.cmd \in {GET_GAMEPAD_CFG, SET_GAMEPAD_CFG, GET_TP_PARAM, SET_TP_PARAM}
  /\ done < MaxDone
  /\ legos_cfg_raw_event(f, GO_S_PACKET_SIZE)
  /\ th' = OwnResponse(q, f, GO_S_PACKET_SIZE)
  /\ dev' = IF isSet THEN [dev EXCEPT ![StubKey(r)] = r.data[1]] ELSE dev
  /\ wire' = Tail(wire)
  /\ UNCHANGED <<msi, zvars, hdev_ep, cfg_mutex>>

\* the stub MCU's lighting registers: a SET_LIGHT_CFG stores its 6-byte
\* payload under its index and is acknowledged with status 0, a GET_LIGHT_CFG
\* returns the payload stored under its index
LightKeys == {SET_LIGHT_CFG} \X (LIGHT_MODE_SEL..USR_LIGHT_PROFILE_3)

LightStubRespond ==
  LET q == Head(wire)
      r == q.frame
      isSet == r.cmd = SET_LIGHT_CFG
      key == <<SET_LIGHT_CFG, r.sub_cmd>>
      f == IF isSet THEN Frame(r.cmd, r.sub_cmd, <<0>>, 1)
           ELSE Frame(r.cmd, r.sub_cmd, dev[key], 6)
  IN
  /\ wire # <<>>
  /\ r.cmd \in {GET_LIGHT_CFG, SET_LIGHT_CFG}
  /\ key \in LightKeys
  /\ done < MaxDone
  /\ legos_cfg_raw_event(f, GO_S_PACKET_SIZE)
  /\ th' = OwnResponse(q, f, GO_S_PACKET_SIZE)
  /\ dev' = IF isSet THEN [dev EXCEPT ![key] = SubSeq(r.data, 1, 6)] ELSE dev
  /\ wire' = Tail(wire)
  /\ UNCHANGED <<msi, zvars, hdev_ep, cfg_mutex>>

(***************************************************************************)
(* zotac-zone-platform: the EC, the fan state and the curve evaluator.     *)
(***************************************************************************)
NCallers == 2
MaxTime == 3

EC_FAN_CTRL_ADDR == 1098
EC_FAN_DUTY_ADDR == 1099
EC_FAN_SPEED_UPPER_ADDR == 1142
EC_FAN_SPEED_LOWER_ADDR == 1143
EC_CPU_TEMP_ADDR == 1122
EC_FAN_MODE_AUTO == 0
EC_FAN_MODE_MANUAL == 1
EC_FAN_MODE_CURVE == 2
EC_FAN_VALUE_MIN == 0
EC_FAN_VALUE_MAX == 255
FAN_CURVE_POINTS == 9
\* jiffies per second
HZ == 2

Callers == 1..NCallers

lvars == <<hdev_ep, cfg_mutex, done, last_cmd_ret, last_cmd_val, mcu_id,
           mcu_ver, rgb_profile, rgb_effect, rgb_speed, rgb_mode, brightness,
           intensity, th, wire, dev, rx_ret>>

\* C's integer division truncates toward zero
CDiv(a, b) ==
  IF a >= 0 /\ b > 0 THEN a \div b
  ELSE IF a < 0 /\ b > 0 THEN -((-a) \div b)
  ELSE IF a >= 0 /\ b < 0 THEN -(a \div (-b))
  ELSE (-a) \div (-b)

\* An unsigned int is kept as its 32-bit pattern read as an int: u itself up
\* to INT_MAX, u - 2^32 above it.
INT_MAX == 2147483647
INT_MIN == -INT_MAX - 1

\* a < b and a >= b of two unsigned ints
ULess(a, b) == IF (a >= 0) = (b >= 0) THEN a < b ELSE b < 0
UGeq(a, b) == ~ULess(a, b)

\* (int)(a - b) of two unsigned ints: the difference modulo 2^32
Int32Sub(a, b) ==
  IF b >= 0 /\ a < INT_MIN + b
  THEN (((((a + INT_MAX) + 1) - b) + INT_MAX) + 1)
  ELSE IF b < 0 /\ a > INT_MAX + b
  THEN ((((a - INT_MAX) - 1) - b) - INT_MAX) - 1
  ELSE a - b

\* kstrtoul(buf, 10, &val): <<return value, val>>
kstrtoul(s) ==
  IF s = HUGE_NUMBER THEN <<-ERANGE, 0>>
  ELSE IF ~IsNumber(s) \/ NumberOf(s) < 0 THEN <<-EINVAL, 0>>
  ELSE <<0, NumberOf(s)>>

\* time_after(a, b)
time_after(a, b) == a > b

\* the default curve of zotac_fan_probe: 10..90 degrees, 20..100 percent
DefaultCurveTemp == [i \in 1..FAN_CURVE_POINTS |-> 10 + ((i - 1) * 10)]
DefaultCurvePwm ==
  [i \in 1..FAN_CURVE_POINTS |->
     IF 20 + ((i - 1) * 10) > 100 THEN 100 ELSE 20 + ((i - 1) * 10)]

\* the for loop without its break: the last interval holding current_temp wins
RECURSIVE CurveScan_nobreak(_, _, _, _)
CurveScan_nobreak(curve_temp, curve_pwm, current_temp, i) ==
  IF i >= FAN_CURVE_POINTS - 1 THEN curve_pwm[1]
  ELSE LET j == FAN_CURVE_POINTS - 2 - i
       IN IF UGeq(current_temp, curve_temp[j + 1])
             /\ ULess(current_temp, curve_temp[j + 2])
          THEN LET temp_range == Int32Sub(curve_temp[j + 2], curve_temp[j + 1])
                   pwm_range == Int32Sub(curve_pwm[j + 2], curve_pwm[j + 1])
                   temp_offset == Int32Sub(current_temp, curve_temp[j + 1])
               IN IF temp_range > 0
                  THEN curve_pwm[j + 1] + CDiv(pwm_range * temp_offset, temp_range)
                  ELSE curve_pwm[j + 1]
          ELSE CurveScan_nobreak(curve_temp, curve_pwm, current_temp, i + 1)

\* the for loop with intervals closed at their upper end
RECURSIVE CurveScan_closed(_, _, _, _)
CurveScan_closed(curve_temp, curve_pwm, current_temp, i) ==
  IF i >= FAN_CURVE_POINTS - 1 THEN curve_pwm[1]
  ELSE IF UGeq(current_temp, curve_temp[i + 1])
          /\ UGeq(curve_temp[i + 2], current_temp)
  THEN LET temp_range == Int32Sub(curve_temp[i + 2], curve_temp[i + 1])
           pwm_range == Int32Sub(curve_pwm[i + 2], curve_pwm[i + 1])
           temp_offset == Int32Sub(current_temp, curve_temp[i + 1])
       IN IF temp_range > 0
          THEN curve_pwm[i + 1] + CDiv(pwm_range * temp_offset, temp_range)
          ELSE curve_pwm[i + 1]
  ELSE CurveScan_closed(curve_temp, curve_pwm, current_temp, i + 1)

\* the for loop with intervals that have no upper end
RECURSIVE CurveScan_open(_, _, _, _)
CurveScan_open(curve_temp, curve_pwm, current_temp, i) ==
  IF i >= FAN_CURVE_POINTS - 1 THEN curve_pwm[1]
  ELSE IF UGeq(current_temp, curve_temp[i + 1])
  THEN LET temp_range == Int32Sub(curve_temp[i + 2], curve_temp[i + 1])
           pwm_range == Int32Sub(curve_pwm[i + 2], curve_pwm[i + 1])
           temp_offset == Int32Sub(current_temp, curve_temp[i + 1])
       IN IF temp_range > 0
          THEN curve_pwm[i + 1] + CDiv(pwm_range * temp_offset, temp_range)
          ELSE curve_pwm[i + 1]
  ELSE CurveScan_open(curve_temp, curve_pwm, current_temp, i + 1)

\* the for loop of fan_curve_function from C index i on; pwm keeps
\* curve_pwm[0] when no interval holds current_temp.  (C index k is k + 1.)
RECURSIVE CurveScan(_, _, _, _)
CurveScan(curve_temp, curve_pwm, current_temp, i) ==
  IF i >= FAN_CURVE_POINTS - 1 THEN curve_pwm[1]
  ELSE IF UGeq(current_temp, curve_temp[i + 1])
          /\ ULess(current_temp, curve_temp[i + 2])
  THEN LET temp_range == Int32Sub(curve_temp[i + 2], curve_temp[i + 1])
           pwm_range == Int32Sub(curve_pwm[i + 2], curve_pwm[i + 1])
           temp_offset == Int32Sub(current_temp, curve_temp[i + 1])
       IN IF temp_range > 0
          THEN curve_pwm[i + 1] + CDiv(pwm_range * temp_offset, temp_range)
          ELSE curve_pwm[i + 1]
  ELSE CurveScan(curve_temp, curve_pwm, current_temp, i + 1)

\* the evaluation without the test against the highest point
CurvePwm_noceiling(curve_temp, curve_pwm, current_temp) ==
  CurveScan(curve_temp, curve_pwm, current_temp, 0)

\* the pwm fan_curve_function computes
CurvePwm(curve_temp, curve_pwm, current_temp) ==
  IF UGeq(current_temp, curve_temp[FAN_CURVE_POINTS])
  THEN curve_pwm[FAN_CURVE_POINTS]
  ELSE CurveScan(curve_temp, curve_pwm, current_temp, 0)

\* duty_val of set_fan_duty_internal
DutyVal(duty_percent) ==
  ToU8((duty_percent * (EC_FAN_VALUE_MAX - EC_FAN_VALUE_MIN)) \div 100
         + EC_FAN_VALUE_MIN)

\* set_fan_duty_internal: the EC after it, and its return value
set_fan_duty_internal(e, duty_percent) ==
  IF ULess(100, duty_percent) THEN <<e, -EINVAL>>
  ELSE <<[e EXCEPT !.duty = DutyVal(duty_percent)], 0>>

\* the value set_fan_mode writes to EC_FAN_CTRL_ADDR
CtrlValue_verbatim(mode) == mode

CtrlValue(mode) ==
  IF mode = EC_FAN_MODE_CURVE THEN EC_FAN_MODE_MANUAL ELSE mode

\* the modes of the last two fan1_mode stores that returned count
Requested(log, mode) ==
  IF Len(log) < 2 THEN Append(log, mode) ELSE <<log[2], mode>>

\* the locals of ec_read_byte and ec_write_byte in a context that is in
\* neither; `at` is the register the transfer reached
NoIo == [pc |-> "none", fn |-> "none", addr |-> 0, value |-> 0, at |-> 0]

\* a caller outside every handler
ZIdle ==
  [pc |-> "idle", fn |-> "none", arg |-> 0, index |-> 0, count |-> 0,
   result |-> 0, now |-> 0, fresh |-> FALSE, vals |-> <<>>, prev |-> <<>>,
   io |-> NoIo]

ZReady(c) == zc[c].pc = "idle" /\ module_state \in {"probing", "loaded", "cancelled"}

ZCall(c, fn, buf) ==
  [ZIdle EXCEPT !.fn = fn, !.count = Len(buf), !.prev = zc[c].prev]

ZReturn(rec, result) == [rec EXCEPT !.pc = "done", !.result = result]

\* the timer callback is not running
TimerIdle == fan_curve_timer.pc = "idle"

\* mod_timer(&fan_curve_timer, jiffies + HZ), the only expiry the driver asks
\* for
mod_timer(tm) == [tm EXCEPT !.pending = TRUE, !.expires = jiffies + HZ]

\* del_timer(&fan_curve_timer): a running callback is not waited for
del_timer(tm) == [tm EXCEPT !.pending = FALSE]

(***************************************************************************)
(* zotac-zone-platform: fan1_mode and set_fan_mode.                        *)
(***************************************************************************)
\* fan1_mode_store up to set_fan_mode
fan1_mode_store(c, buf) ==
  LET k == kstrtoul(buf)
      rec == ZCall(c, "fan1_mode_store", buf)
  IN
  /\ ZReady(c)
  /\ zc' = [zc EXCEPT ![c] =
              IF k[1] # 0 THEN ZReturn(rec, k[1])
              ELSE IF k[2] # EC_FAN_MODE_AUTO /\ k[2] # EC_FAN_MODE_MANUAL
                      /\ k[2] # EC_FAN_MODE_CURVE
              THEN ZReturn(rec, -EINVAL)
              ELSE [rec EXCEPT !.pc = "set_fan_mode", !.arg = ToU8(k[2])]]
  /\ UNCHANGED <<msi, lvars, ec, data, update_lock, fan_curve_timer, jiffies,
                 module_state, zlog>>

\* set_fan_mode: data->curve_enabled is set for Curve, cleared otherwise
set_fan_mode_flag(c) ==
  /\ zc[c].pc = "set_fan_mode"
  /\ IF zc[c].arg = EC_FAN_MODE_CURVE
     THEN /\ data' = [data EXCEPT !.curve_enabled = TRUE]
          /\ zc' = [zc EXCEPT ![c].pc = "sfm_write"]
     ELSE IF data.curve_enabled
     THEN /\ data' = [data EXCEPT !.curve_enabled = FALSE]
          /\ zc' = [zc EXCEPT ![c].pc = "sfm_del"]
     ELSE /\ data' = data
          /\ zc' = [zc EXCEPT ![c].pc = "sfm_write"]
  /\ UNCHANGED <<msi, lvars, ec, update_lock, fan_curve_timer, jiffies,
                 module_state, zlog>>

\* set_fan_mode: del_timer(&fan_curve_timer)
set_fan_mode_del_timer(c) ==
  /\ zc[c].pc = "sfm_del"
  /\ fan_curve_timer' = del_timer(fan_curve_timer)
  /\ zc' = [zc EXCEPT ![c].pc = "sfm_write"]
  /\ UNCHANGED <<msi, lvars, ec, data, update_lock, jiffies, module_state, zlog>>

\* set_fan_mode: ec_write_byte(EC_FAN_CTRL_ADDR, ...), which returns 0
set_fan_mode_write(c) ==
  /\ zc[c].pc = "sfm_write"
  /\ ec' = [ec EXCEPT !.ctrl = CtrlValue(zc[c].arg)]
  /\ zlog' = [zlog EXCEPT !.ctrl = @ \cup {CtrlValue(zc[c].arg)}]
  /\ zc' = [zc EXCEPT ![c].pc = "sfm_mode"]
  /\ UNCHANGED <<msi, lvars, data, update_lock, fan_curve_timer, jiffies,
                 module_state>>

\* set_fan_mode: data->fan_mode = ...; for Auto and Manual the store returns
set_fan_mode_mode(c) ==
  /\ zc[c].pc = "sfm_mode"
  /\ data' = [data EXCEPT !.fan_mode = CtrlValue(zc[c].arg)]
  /\ IF zc[c].arg = EC_FAN_MODE_CURVE
     THEN /\ zc' = [zc EXCEPT ![c].pc = "sfm_arm"]
          /\ zlog' = zlog
     ELSE /\ zc' = [zc EXCEPT ![c] = ZReturn(@, zc[c].count)]
          /\ zlog' = [zlog EXCEPT !.requested = Requested(@, zc[c].arg)]
  /\ UNCHANGED <<msi, lvars, ec, update_lock, fan_curve_timer, jiffies,
                 module_state>>

\* set_fan_mode: mod_timer(&fan_curve_timer, jiffies + HZ); the store returns
set_fan_mode_arm(c) ==
  /\ zc[c].pc = "sfm_arm"
  /\ fan_curve_timer' = mod_timer(fan_curve_timer)
  /\ zc' = [zc EXCEPT ![c] = ZReturn(@, zc[c].count)]
  /\ zlog' = [zlog EXCEPT !.requested = Requested(@, zc[c].arg)]
  /\ UNCHANGED <<msi, lvars, ec, data, update_lock, jiffies, module_state>>

(***************************************************************************)
(* zotac-zone-platform: fan1_duty and set_fan_duty.                        *)
(***************************************************************************)
\* fan1_duty_store up to set_fan_duty; the u8 parameter of set_fan_duty and
\* its own range test see a value of at most 100
fan1_duty_store(c, buf) ==
  LET k == kstrtoul(buf)
      rec == ZCall(c, "fan1_duty_store", buf)
  IN
  /\ ZReady(c)
  /\ zc' = [zc EXCEPT ![c] =
              IF k[1] # 0 THEN ZReturn(rec, k[1])
              ELSE IF k[2] > 100 THEN ZReturn(rec, -EINVAL)
              ELSE [rec EXCEPT !.pc = "sfd_lock", !.arg = ToU8(k[2])]]
  /\ UNCHANGED <<msi, lvars, ec, data, update_lock, fan_curve_timer, jiffies,
                 module_state, zlog>>

\* set_fan_duty: mutex_lock(&data->update_lock)
set_fan_duty_lock(c) ==
  /\ zc[c].pc = "sfd_lock"
  /\ update_lock = "free"
  /\ update_lock' = "caller"
  /\ zc' = [zc EXCEPT ![c].pc = "sfd_write"]
  /\ UNCHANGED <<msi, lvars, ec, data, fan_curve_timer, jiffies, module_state, zlog>>

\* set_fan_duty: set_fan_duty_internal(duty_percent) and, when it returned 0,
\* data->fan_duty = duty_val
set_fan_duty_write(c) ==
  LET r == set_fan_duty_internal(ec, zc[c].arg)
  IN
  /\ zc[c].pc = "sfd_write"
  /\ ec' = r[1]
  /\ data' = IF r[2] = 0 THEN [data EXCEPT !.fan_duty = DutyVal(zc[c].arg)]
             ELSE data
  /\ zc' = [zc EXCEPT ![c].pc = "sfd_unlock", ![c].result = r[2]]
  /\ UNCHANGED <<msi, lvars, update_lock, fan_curve_timer, jiffies, module_state,
                 zlog>>

\* set_fan_duty: mutex_unlock(&data->update_lock); the store returns err or
\* count
set_fan_duty_unlock(c) ==
  /\ zc[c].pc = "sfd_unlock"
  /\ update_lock' = "free"
  /\ zc' = [zc EXCEPT ![c] =
              ZReturn(@, IF zc[c].result # 0 THEN zc[c].result
                         ELSE zc[c].count)]
  /\ UNCHANGED <<msi, lvars, ec, data, fan_curve_timer, jiffies, module_state, zlog>>

set_fan_duty(c) ==
  \/ set_fan_duty_lock(c)
  \/ set_fan_duty_write(c)
  \/ set_fan_duty_unlock(c)

(***************************************************************************)
(* zotac-zone-platform: the curve timer and fan_curve_function.            *)
(***************************************************************************)
\* the armed timer expires and its callback starts
timer_fire ==
  /\ fan_curve_timer.pending
  /\ TimerIdle
  /\ module_state # "unloaded"
  /\ fan_curve_timer' = [fan_curve_timer EXCEPT !.pending = FALSE, !.pc = "check"]
  /\ UNCHANGED <<msi, lvars, ec, data, update_lock, jiffies, zc, module_state, zlog>>

\* if (!data || !data->curve_enabled)
fan_curve_function_check ==
  /\ fan_curve_timer.pc = "check"
  /\ fan_curve_timer' =
       [fan_curve_timer EXCEPT !.pc = IF data.curve_enabled THEN "lock"
                                      ELSE "recheck"]
  /\ UNCHANGED <<msi, lvars, ec, data, update_lock, jiffies, zc, module_state, zlog>>

\* if (data && data->curve_enabled) mod_timer(...); return
fan_curve_function_recheck ==
  /\ fan_curve_timer.pc = "recheck"
  /\ fan_curve_timer' =
       [(IF data.curve_enabled THEN mod_timer(fan_curve_timer)
         ELSE fan_curve_timer) EXCEPT !.pc = "idle", !.current_temp = 0,
                                      !.pwm = 0]
  /\ UNCHANGED <<msi, lvars, ec, data, update_lock, jiffies, zc, module_state, zlog>>

\* mutex_lock(&data->update_lock)
fan_curve_function_lock ==
  /\ fan_curve_timer.pc = "lock"
  /\ update_lock = "free"
  /\ update_lock' = "timer"
  /\ fan_curve_timer' = [fan_curve_timer EXCEPT !.pc = "sample"]
  /\ UNCHANGED <<msi, lvars, ec, data, jiffies, zc, module_state, zlog>>

\* current_temp = ec_read_byte(EC_CPU_TEMP_ADDR); data->temp = current_temp
fan_curve_function_sample ==
  /\ fan_curve_timer.pc = "sample"
  /\ data' = [data EXCEPT !.temp = ec.temp]
  /\ fan_curve_timer' = [fan_curve_timer EXCEPT !.pc = "eval",
                                                !.current_temp = ec.temp]
  /\ UNCHANGED <<msi, lvars, ec, update_lock, jiffies, zc, module_state, zlog>>

\* the interpolation and set_fan_duty_internal(pwm)
fan_curve_function_eval ==
  LET pwm == CurvePwm(data.curve_temp, data.curve_pwm,
                      fan_curve_timer.current_temp)
  IN
  /\ fan_curve_timer.pc = "eval"
  /\ ec' = set_fan_duty_internal(ec, pwm)[1]
  /\ fan_curve_timer' = [fan_curve_timer EXCEPT !.pc = "unlock", !.pwm = pwm]
  /\ UNCHANGED <<msi, lvars, data, update_lock, jiffies, zc, module_state, zlog>>

\* mutex_unlock(&data->update_lock)
fan_curve_function_unlock ==
  /\ fan_curve_timer.pc = "unlock"
  /\ update_lock' = "free"
  /\ fan_curve_timer' = [fan_curve_timer EXCEPT !.pc = "rearm"]
  /\ UNCHANGED <<msi, lvars, ec, data, jiffies, zc, module_state, zlog>>

\* mod_timer(&fan_curve_timer, jiffies + HZ) at the end of the tick; the
\* callback's locals end with it
fan_curve_function_rearm ==
  /\ fan_curve_timer.pc = "rearm"
  /\ fan_curve_timer' = [mod_timer(fan_curve_timer) EXCEPT
                           !.pc = "idle", !.current_temp = 0, !.pwm = 0]
  /\ UNCHANGED <<msi, lvars, ec, data, update_lock, jiffies, zc, module_state, zlog>>

fan_curve_function ==
  \/ fan_curve_function_check
  \/ fan_curve_function_recheck
  \/ fan_curve_function_lock
  \/ fan_curve_function_sample
  \/ fan_curve_function_eval
  \/ fan_curve_function_unlock
  \/ fan_curve_function_rearm

(***************************************************************************)
(* zotac-zone-platform: zotac_fan_update_device and the attributes that    *)
(* read through it.                                                        *)
(***************************************************************************)
\* time_after(current_time, data->last_updated + HZ) || !data->valid
Stale(d, current_time) ==
  time_after(current_time, d.last_updated + HZ) \/ ~d.valid

\* the EC read sequence of zotac_fan_update_device and the stamp
Refresh(d, e, current_time) ==
  [d EXCEPT !.fan_mode = e.ctrl,
            !.fan_duty = e.duty,
            !.fan_rpm = e.speed_upper * 256 + e.speed_lower,
            !.temp = e.temp,
            !.last_updated = current_time,
            !.valid = TRUE]

ZShowFns ==
  {"fan1_input_show", "fan1_mode_show", "fan1_duty_show", "temp1_input_show"}

\* the number each show handler prints
ZShowRender(fn, d) ==
  CASE fn = "fan1_input_show" -> d.fan_rpm
    [] fn = "fan1_mode_show" ->
         IF d.curve_enabled THEN EC_FAN_MODE_CURVE ELSE d.fan_mode
    [] fn = "fan1_duty_show" ->
         CDiv((d.fan_duty - EC_FAN_VALUE_MIN) * 100,
              EC_FAN_VALUE_MAX - EC_FAN_VALUE_MIN)
    [] fn = "temp1_input_show" -> d.temp * 1000

\* a show handler enters zotac_fan_update_device: current_time = jiffies, and
\* the staleness test
zotac_fan_update_device(c, fn) ==
  /\ ZReady(c)
  /\ fn \in ZShowFns
  /\ zc' = [zc EXCEPT ![c] =
              [ZCall(c, fn, <<>>) EXCEPT
                 !.now = jiffies,
                 !.fresh = Stale(data, jiffies),
                 !.pc = IF Stale(data, jiffies) THEN "upd_lock" ELSE "show"]]
  /\ UNCHANGED <<msi, lvars, ec, data, update_lock, fan_curve_timer, jiffies,
                 module_state, zlog>>

\* mutex_lock(&data->update_lock)
zotac_fan_update_device_lock(c) ==
  /\ zc[c].pc = "upd_lock"
  /\ update_lock = "free"
  /\ update_lock' = "caller"
  /\ zc' = [zc EXCEPT ![c].pc = "upd_read"]
  /\ UNCHANGED <<msi, lvars, ec, data, fan_curve_timer, jiffies, module_state, zlog>>

\* the five ec_read_byte calls, data->last_updated and data->valid
zotac_fan_update_device_read(c) ==
  /\ zc[c].pc = "upd_read"
  /\ data' = Refresh(data, ec, zc[c].now)
  /\ zc' = [zc EXCEPT ![c].pc = "upd_unlock"]
  /\ UNCHANGED <<msi, lvars, ec, update_lock, fan_curve_timer, jiffies,
                 module_state, zlog>>

\* mutex_unlock(&data->update_lock)
zotac_fan_update_device_unlock(c) ==
  /\ zc[c].pc = "upd_unlock"
  /\ update_lock' = "free"
  /\ zc' = [zc EXCEPT ![c].pc = "show"]
  /\ UNCHANGED <<msi, lvars, ec, data, fan_curve_timer, jiffies, module_state, zlog>>

\* sprintf(buf, "%u\n", ...) of the handler
zotac_show_ret(c) ==
  /\ zc[c].pc = "show"
  /\ zc' = [zc EXCEPT ![c] =
              [ZReturn(@, 0) EXCEPT !.vals = <<ZShowRender(zc[c].fn, data)>>]]
  /\ UNCHANGED <<msi, lvars, ec, data, update_lock, fan_curve_timer, jiffies,
                 module_state, zlog>>

\* the handler has returned to user space
ZFinish(c) ==
  /\ zc[c].pc = "done"
  /\ zc' = [zc EXCEPT ![c] =
              [ZIdle EXCEPT !.prev = IF zc[c].fn \in ZShowFns /\ zc[c].fresh
                                     THEN <<zc[c].fn, zc[c].now, zc[c].vals[1]>>
                                     ELSE zc[c].prev]]
  /\ UNCHANGED <<msi, lvars, ec, data, update_lock, fan_curve_timer, jiffies,
                 module_state, zlog>>

(***************************************************************************)
(* zotac-zone-platform: the curve point attributes.                        *)
(***************************************************************************)
\* pwm1_auto_point<index>_temp_store up to the lock
pwm1_auto_point_temp_store(c, index, buf) ==
  LET k == kstrtoul(buf)
      rec == ZCall(c, "pwm1_auto_point_temp_store", buf)
  IN
  /\ ZReady(c)
  /\ index \in 1..FAN_CURVE_POINTS
  /\ zc' = [zc EXCEPT ![c] =
              IF k[1] # 0 THEN ZReturn(rec, k[1])
              ELSE [rec EXCEPT !.pc = "point", !.index = index, !.arg = k[2]]]
  /\ UNCHANGED <<msi, lvars, ec, data, update_lock, fan_curve_timer, jiffies,
                 module_state, zlog>>

\* pwm1_auto_point<index>_pwm_store up to the lock
pwm1_auto_point_pwm_store(c, index, buf) ==
  LET k == kstrtoul(buf)
      rec == ZCall(c, "pwm1_auto_point_pwm_store", buf)
  IN
  /\ ZReady(c)
  /\ index \in 1..FAN_CURVE_POINTS
  /\ zc' = [zc EXCEPT ![c] =
              IF k[1] # 0 THEN ZReturn(rec, k[1])
              ELSE IF k[2] > 100 THEN ZReturn(rec, -EINVAL)
              ELSE [rec EXCEPT !.pc = "point", !.index = index, !.arg = k[2]]]
  /\ UNCHANGED <<msi, lvars, ec, data, update_lock, fan_curve_timer, jiffies,
                 module_state, zlog>>

\* mutex_lock; data->curve_temp[index - 1] or data->curve_pwm[index - 1] is
\* assigned; mutex_unlock; return count
pwm1_auto_point_write(c) ==
  /\ zc[c].pc = "point"
  /\ update_lock = "free"
  /\ data' = IF zc[c].fn = "pwm1_auto_point_temp_store"
             THEN [data EXCEPT !.curve_temp[zc[c].index] = zc[c].arg]
             ELSE [data EXCEPT !.curve_pwm[zc[c].index] = zc[c].arg]
  /\ zc' = [zc EXCEPT ![c] = ZReturn(@, zc[c].count)]
  /\ UNCHANGED <<msi, lvars, ec, update_lock, fan_curve_timer, jiffies,
                 module_state, zlog>>

(***************************************************************************)
(* zotac-zone-platform: the hardware, the clock, probe and module exit.    *)
(***************************************************************************)
\* the EC measures a new temperature and fan speed
ec_measure(temp, upper, lower) ==
  /\ module_state # "unloaded"
  /\ ec' = [ec EXCEPT !.temp = temp, !.speed_upper = upper,
                      !.speed_lower = lower]
  /\ ec' # ec
  /\ UNCHANGED <<msi, lvars, data, update_lock, fan_curve_timer, jiffies, zc,
                 module_state, zlog>>

\* one jiffy passes
jiffies_tick ==
  /\ jiffies < MaxTime
  /\ module_state # "unloaded"
  /\ jiffies' = jiffies + 1
  /\ UNCHANGED <<msi, lvars, ec, data, update_lock, fan_curve_timer, zc,
                 module_state, zlog>>

\* zotac_fan_probe after timer_setup: zotac_fan_update_device, return 0
zotac_fan_probe ==
  /\ module_state = "probing"
  /\ update_lock = "free"
  /\ data' = IF Stale(data, jiffies) THEN Refresh(data, ec, jiffies) ELSE data
  /\ module_state' = "loaded"
  /\ UNCHANGED <<msi, lvars, ec, update_lock, fan_curve_timer, jiffies, zc, zlog>>

\* zotac_fan_exit: del_timer_sync(&fan_curve_timer) waits for a running
\* callback and returns with the timer not pending
zotac_fan_exit_del_timer_sync ==
  /\ module_state = "loaded"
  /\ TimerIdle
  /\ fan_curve_timer' = del_timer(fan_curve_timer)
  /\ module_state' = "cancelled"
  /\ UNCHANGED <<msi, lvars, ec, data, update_lock, jiffies, zc, zlog>>

\* zotac_fan_exit: platform_driver_unregister removes the attributes once
\* no handler is inside them
zotac_fan_exit_unregister ==
  /\ module_state = "cancelled"
  /\ \A c \in Callers : zc[c].pc = "idle"
  /\ module_state' = "unloaded"
  /\ UNCHANGED <<msi, lvars, ec, data, update_lock, fan_curve_timer, jiffies, zc,
                 zlog>>

(***************************************************************************)
(* zotac-zone-platform: ec_read_byte and ec_write_byte port by port.  The  *)
(* other actions of the fan model take one EC access as one step.          *)
(***************************************************************************)
\* the contexts that call into the EC: the sysfs callers and the timer
\* callback
TimerContext == NCallers + 1
Contexts == Callers \cup {TimerContext}

Io(who) == IF who = TimerContext THEN fan_curve_timer.io ELSE zc[who].io

SetIo(who, io) ==
  IF who = TimerContext
  THEN fan_curve_timer' = [fan_curve_timer EXCEPT !.io = io] /\ zc' = zc
  ELSE zc' = [zc EXCEPT ![who].io = io] /\ fan_curve_timer' = fan_curve_timer

\* the EC register behind an address
EcReg(e, addr) ==
  CASE addr = EC_FAN_CTRL_ADDR -> e.ctrl
    [] addr = EC_FAN_DUTY_ADDR -> e.duty
    [] addr = EC_FAN_SPEED_UPPER_ADDR -> e.speed_upper
    [] addr = EC_FAN_SPEED_LOWER_ADDR -> e.speed_lower
    [] addr = EC_CPU_TEMP_ADDR -> e.temp
    [] OTHER -> 0

EcSetReg(e, addr, value) ==
  CASE addr = EC_FAN_CTRL_ADDR -> [e EXCEPT !.ctrl = value]
    [] addr = EC_FAN_DUTY_ADDR -> [e EXCEPT !.duty = value]
    [] addr = EC_FAN_SPEED_UPPER_ADDR -> [e EXCEPT !.speed_upper = value]
    [] addr = EC_FAN_SPEED_LOWER_ADDR -> [e EXCEPT !.speed_lower = value]
    [] addr = EC_CPU_TEMP_ADDR -> [e EXCEPT !.temp = value]
    [] OTHER -> e

\* the address the EC's latch holds
EcLatched(e) == e.addr_upper * 256 + e.addr_lower

\* ec_read_byte(addr) is entered
ec_read_byte(who, addr) ==
  /\ Io(who).pc = "none"
  /\ SetIo(who, [NoIo EXCEPT !.pc = "lock", !.fn = "ec_read_byte",
                             !.addr = addr])
  /\ UNCHANGED <<msi, lvars, ec, data, update_lock, jiffies, module_state, zlog>>

\* ec_write_byte(addr, value) is entered
ec_write_byte(who, addr, value) ==
  /\ Io(who).pc = "none"
  /\ SetIo(who, [NoIo EXCEPT !.pc = "lock", !.fn = "ec_write_byte",
                             !.addr = addr, !.value = value])
  /\ UNCHANGED <<msi, lvars, ec, data, update_lock, jiffies, module_state, zlog>>

\* mutex_lock(&ec_mutex) goes through
ec_mutex_free_always(e) == TRUE

ec_mutex_free(e) == e.ec_mutex = 0

\* mutex_lock(&ec_mutex)
ec_byte_lock(who) ==
  /\ Io(who).pc = "lock"
  /\ ec_mutex_free(ec)
  /\ ec' = [ec EXCEPT !.ec_mutex = who]
  /\ SetIo(who, [Io(who) EXCEPT !.pc = "upper"])
  /\ UNCHANGED <<msi, lvars, data, update_lock, jiffies, module_state, zlog>>

\* select upper byte address: register 0x11 takes addr_upper
ec_byte_select_upper(who) ==
  /\ Io(who).pc = "upper"
  /\ ec' = [ec EXCEPT !.addr_upper = (Io(who).addr \div 256) % 256]
  /\ SetIo(who, [Io(who) EXCEPT !.pc = "lower"])
  /\ UNCHANGED <<msi, lvars, data, update_lock, jiffies, module_state, zlog>>

\* select lower byte address: register 0x10 takes addr_lower
ec_byte_select_lower(who) ==
  /\ Io(who).pc = "lower"
  /\ ec' = [ec EXCEPT !.addr_lower = Io(who).addr % 256]
  /\ SetIo(who, [Io(who) EXCEPT !.pc = "data"])
  /\ UNCHANGED <<msi, lvars, data, update_lock, jiffies, module_state, zlog>>

\* read data or write data through register 0x12, at the latched address
ec_byte_transfer(who) ==
  /\ Io(who).pc = "data"
  /\ IF Io(who).fn = "ec_read_byte"
     THEN /\ ec' = ec
          /\ SetIo(who, [Io(who) EXCEPT !.pc = "unlock",
                                        !.value = EcReg(ec, EcLatched(ec)),
                                        !.at = EcLatched(ec)])
     ELSE /\ ec' = EcSetReg(ec, EcLatched(ec), Io(who).value)
          /\ SetIo(who, [Io(who) EXCEPT !.pc = "unlock",
                                        !.at = EcLatched(ec)])
  /\ UNCHANGED <<msi, lvars, data, update_lock, jiffies, module_state, zlog>>

\* the return without mutex_unlock(&ec_mutex)
ec_byte_unlock_held(who) ==
  /\ Io(who).pc = "unlock"
  /\ ec' = ec
  /\ SetIo(who, NoIo)
  /\ UNCHANGED <<msi, lvars, data, update_lock, jiffies, module_state, zlog>>

\* mutex_unlock(&ec_mutex) and the return
ec_byte_unlock(who) ==
  /\ Io(who).pc = "unlock"
  /\ ec' = [ec EXCEPT !.ec_mutex = 0]
  /\ SetIo(who, NoIo)
  /\ UNCHANGED <<msi, lvars, data, update_lock, jiffies, module_state, zlog>>

\* the state zotac_fan_probe builds up to timer_setup
ZotacInit(curve_temp, curve_pwm) ==
  /\ ec = [ctrl |-> EC_FAN_MODE_AUTO, duty |-> 0, temp |-> 0,
           speed_upper |-> 0, speed_lower |-> 0,
           addr_upper |-> 0, addr_lower |-> 0, ec_mutex |-> 0]
  /\ data = [fan_rpm |-> 0, fan_duty |-> 0, fan_mode |-> 0, temp |-> 0,
             last_updated |-> 0, valid |-> FALSE, curve_enabled |-> FALSE,
             curve_temp |-> curve_temp, curve_pwm |-> curve_pwm]
  /\ update_lock = "free"
  /\ fan_curve_timer = [pending |-> FALSE, expires |-> 0, pc |-> "idle",
                        current_temp |-> 0, pwm |-> 0, io |-> NoIo]
  /\ jiffies = 0
  /\ zc = [c \in Callers |-> ZIdle]
  /\ module_state = "probing"
  /\ zlog = [ctrl |-> {}, requested |-> <<>>]

(***************************************************************************)
(* msi-wmi-platform: the WMI query, the fan and temperature table          *)
(* attributes, pwm enable and a debugfs method file.  A caller's record    *)
(* holds the handler it is in, its u8 buffer[32] and the number of         *)
(* firmware calls it has made.                                             *)
(***************************************************************************)
EIO == 5
ENODATA == 61
ENOMSG == 42
EPROTO == 71
EFAULT == 14

MSI_PLATFORM_GET_TEMPERATURE == 13
MSI_PLATFORM_SET_TEMPERATURE == 14
MSI_PLATFORM_GET_FAN == 17
MSI_PLATFORM_SET_FAN == 18
MSI_PLATFORM_GET_AP == 25
MSI_PLATFORM_SET_AP == 26
MSI_PLATFORM_FAN_SUBFEATURE_CPU_FAN_TABLE == 1
MSI_PLATFORM_FAN_SUBFEATURE_CPU_TEMP_TABLE == 1
MSI_PLATFORM_AP_SUBFEATURE_FAN_MODE == 1
MSI_PLATFORM_AP_FAN_FLAGS_OFFSET == 1
MSI_PLATFORM_AP_ENABLE_FAN_TABLES == 128

\* sizeof(buffer), and data->length of a debugfs file
MSI_BUFFER_LENGTH == 32

MsiSetMethods ==
  {MSI_PLATFORM_SET_TEMPERATURE, MSI_PLATFORM_SET_FAN, MSI_PLATFORM_SET_AP}

\* what wmidev_evaluate_method can come back with: a reply, an ACPI failure,
\* no object, an object that is no buffer, a buffer of another length, a
\* reply whose status byte is 0
FwOutcomes == {"ok", "failure", "null", "type", "length", "status"}

NoObject == [type |-> "none", pointer |-> <<>>]

\* the firmware behind wmidev_evaluate_method: a Get_ method answers a
\* status byte and the bytes of its feature, a Set_ method stores bytes 1..31
\* of its input
wmidev_evaluate_method(fw, method, in, o) ==
  LET set == method \in MsiSetMethods
      bytes == IF set THEN Zeros(MSI_BUFFER_LENGTH - 1) ELSE fw[method + 1]
  IN [failure |-> o = "failure",
      obj |-> CASE o = "ok" -> [type |-> "buffer", pointer |-> <<1>> \o bytes]
                [] o = "status" ->
                     [type |-> "buffer", pointer |-> <<0>> \o bytes]
                [] o = "length" -> [type |-> "buffer", pointer |-> <<1>>]
                [] o = "type" -> [type |-> "integer", pointer |-> <<>>]
                [] OTHER -> NoObject,
      fw |-> IF set /\ o = "ok" THEN [fw EXCEPT ![method] = Tail(in)] ELSE fw]

\* a parse that takes a reply whatever its status byte
msi_wmi_platform_parse_buffer_nostatus(obj, output, length) ==
  IF obj.type # "buffer" THEN <<-ENOMSG, output>>
  ELSE IF Len(obj.pointer) # length THEN <<-EPROTO, output>>
  ELSE <<0, obj.pointer>>

\* msi_wmi_platform_parse_buffer: <<the return value, output>>
msi_wmi_platform_parse_buffer(obj, output, length) ==
  IF obj.type # "buffer" THEN <<-ENOMSG, output>>
  ELSE IF Len(obj.pointer) # length THEN <<-EPROTO, output>>
  ELSE IF obj.pointer[1] = 0 THEN <<-EIO, output>>
  ELSE <<0, obj.pointer>>

\* msi_wmi_platform_query: the return value, data and the firmware after it
msi_wmi_platform_query(fw, method, data_in, length, o) ==
  LET out == wmidev_evaluate_method(fw, method, data_in, o)
      p == msi_wmi_platform_parse_buffer(out.obj, data_in, length)
  IN IF length = 0 THEN [ret |-> -EINVAL, data |-> data_in, fw |-> fw]
     ELSE IF out.failure THEN [ret |-> -EIO, data |-> data_in, fw |-> out.fw]
     ELSE IF out.obj = NoObject
     THEN [ret |-> -ENODATA, data |-> data_in, fw |-> out.fw]
     ELSE [ret |-> p[1], data |-> p[2], fw |-> out.fw]

MsiIdle ==
  [pc |-> "idle", fn |-> "none", method |-> 0, index |-> 0, val |-> 0,
   count |-> 0, buffer |-> <<>>, queries |-> 0, result |-> 0]

MsiReturn(rec, result) == [rec EXCEPT !.pc = "done", !.result = result]

\* the firmware's tables are zero, no file has been written
MsiInit ==
  [fw |-> [m \in MsiSetMethods |-> Zeros(MSI_BUFFER_LENGTH - 1)],
   write_lock |-> 0,
   buffer |-> Zeros(MSI_BUFFER_LENGTH),
   call |-> [c \in Callers |-> MsiIdle]]

kstrtol(s) ==
  IF s = HUGE_NUMBER THEN <<-ERANGE, 0>>
  ELSE IF ~IsNumber(s) THEN <<-EINVAL, 0>>
  ELSE <<0, NumberOf(s)>>

clamp_val(v, lo, hi) == IF v < lo THEN lo ELSE IF v > hi THEN hi ELSE v

\* fixp_linear_interpolate of linux/fixp-arith.h, for x0 <= x <= x1
fixp_linear_interpolate(x0, y0, x1, y1, x) ==
  IF y0 = y1 \/ x = x0 THEN y0
  ELSE IF x1 = x0 \/ x = x1 THEN y1
  ELSE y0 + (((y1 - y0) * (x - x0)) \div (x1 - x0))

\* the table handlers up to guard(mutex)(&data->write_lock)
table_store(c, fn, method, nr, index, buf) ==
  LET k == kstrtol(buf)
      v == clamp_val(k[2], 0, 255)
      rec == [MsiIdle EXCEPT
                !.fn = fn, !.method = method, !.index = index,
                !.count = Len(buf), !.buffer = <<nr>> \o Zeros(MSI_BUFFER_LENGTH - 1),
                !.val = IF fn = "msi_wmi_platform_fan_table_store"
                        THEN fixp_linear_interpolate(0, 0, 255, 100, v) ELSE v]
  IN
  /\ msi.call[c].pc = "idle"
  /\ msi' = [msi EXCEPT !.call[c] = IF k[1] < 0 THEN MsiReturn(rec, k[1])
                                    ELSE [rec EXCEPT !.pc = "lock"]]
  /\ UNCHANGED <<lvars, zvars>>

msi_wmi_platform_fan_table_store(c, index, buf) ==
  table_store(c, "msi_wmi_platform_fan_table_store", MSI_PLATFORM_GET_FAN,
              MSI_PLATFORM_FAN_SUBFEATURE_CPU_FAN_TABLE, index, buf)

msi_wmi_platform_temp_table_store(c, index, buf) ==
  table_store(c, "msi_wmi_platform_temp_table_store",
              MSI_PLATFORM_GET_TEMPERATURE,
              MSI_PLATFORM_FAN_SUBFEATURE_CPU_TEMP_TABLE, index, buf)

\* msi_wmi_platform_write of pwm enable up to guard(mutex)
msi_wmi_platform_write(c, val) ==
  /\ msi.call[c].pc = "idle"
  /\ msi' = [msi EXCEPT !.call[c] =
               [MsiIdle EXCEPT
                  !.fn = "msi_wmi_platform_write", !.pc = "lock",
                  !.method = MSI_PLATFORM_GET_AP, !.val = val,
                  !.buffer = <<MSI_PLATFORM_AP_SUBFEATURE_FAN_MODE>>
                               \o Zeros(MSI_BUFFER_LENGTH - 1)]]
  /\ UNCHANGED <<lvars, zvars>>

\* a lock that does not exclude
write_lock_free_always(c) == TRUE

\* mutex_lock(&data->write_lock) can be taken
write_lock_free(c) == msi.write_lock = 0

\* guard(mutex)(&data->write_lock)
msi_write_lock(c) ==
  /\ msi.call[c].pc = "lock"
  /\ write_lock_free(c)
  /\ msi' = [msi EXCEPT !.write_lock = c, !.call[c].pc = "get"]
  /\ UNCHANGED <<lvars, zvars>>

\* buffer[MSI_PLATFORM_AP_FAN_FLAGS_OFFSET] with the enable bit set or
\* cleared
ApFlags(flags, val) ==
  LET has == (flags \div MSI_PLATFORM_AP_ENABLE_FAN_TABLES) % 2 = 1
  IN IF val = 1
     THEN (IF has THEN flags ELSE flags + MSI_PLATFORM_AP_ENABLE_FAN_TABLES)
     ELSE (IF has THEN flags - MSI_PLATFORM_AP_ENABLE_FAN_TABLES ELSE flags)

\* the Get_ query and the change of the one byte; an error, and a pwm
\* enable value other than 1 and 2, returns and the guard releases the lock
msi_store_get(c, o) ==
  LET rec == msi.call[c]
      q == msi_wmi_platform_query(msi.fw, rec.method, rec.buffer,
                                  MSI_BUFFER_LENGTH, o)
      asked == [rec EXCEPT !.queries = @ + 1, !.buffer = q.data]
      table == [q.data EXCEPT ![1] = rec.buffer[1], ![rec.index + 2] = rec.val]
      flags == [q.data EXCEPT
                  ![1] = MSI_PLATFORM_AP_SUBFEATURE_FAN_MODE,
                  ![MSI_PLATFORM_AP_FAN_FLAGS_OFFSET + 1] = ApFlags(@, rec.val)]
      pwm == rec.fn = "msi_wmi_platform_write"
  IN
  /\ rec.pc = "get"
  /\ msi' = IF q.ret < 0
            THEN [msi EXCEPT !.fw = q.fw, !.write_lock = 0,
                             !.call[c] = MsiReturn(asked, q.ret)]
            ELSE IF pwm /\ rec.val \notin {1, 2}
            THEN [msi EXCEPT !.fw = q.fw, !.write_lock = 0,
                             !.call[c] = MsiReturn(asked, -EINVAL)]
            ELSE [msi EXCEPT !.fw = q.fw,
                             !.call[c] = [asked EXCEPT
                                            !.pc = "set",
                                            !.buffer = IF pwm THEN flags
                                                       ELSE table]]
  /\ UNCHANGED <<lvars, zvars>>

\* the Set_ query; the handler returns and the guard releases the lock
msi_store_set(c, o) ==
  LET rec == msi.call[c]
      q == msi_wmi_platform_query(msi.fw, rec.method + 1, rec.buffer,
                                  MSI_BUFFER_LENGTH, o)
  IN
  /\ rec.pc = "set"
  /\ msi' = [msi EXCEPT
               !.fw = q.fw, !.write_lock = 0,
               !.call[c] =
                 MsiReturn([rec EXCEPT !.queries = @ + 1, !.buffer = q.data],
                           IF q.ret < 0 \/ rec.fn = "msi_wmi_platform_write"
                           THEN q.ret ELSE rec.count)]
  /\ UNCHANGED <<lvars, zvars>>

\* the method of the debugfs file "get_fan"
DebugMethod == MSI_PLATFORM_GET_FAN

\* msi_wmi_platform_debugfs_write up to down_write: the two tests,
\* simple_write_to_buffer (user_ok: copy_from_user copied everything) and
\* the query on the local payload
msi_wmi_platform_debugfs_write(c, offset, input, user_ok, o) ==
  LET rec == [MsiIdle EXCEPT !.fn = "msi_wmi_platform_debugfs_write",
                             !.method = DebugMethod, !.index = offset,
                             !.count = Len(input)]
      q == msi_wmi_platform_query(msi.fw, DebugMethod, input,
                                  MSI_BUFFER_LENGTH, o)
      asked == [rec EXCEPT !.queries = 1, !.buffer = q.data]
  IN
  /\ msi.call[c].pc = "idle"
  /\ msi' = IF offset # 0 THEN [msi EXCEPT !.call[c] = MsiReturn(rec, -EINVAL)]
            ELSE IF Len(input) # MSI_BUFFER_LENGTH
            THEN [msi EXCEPT !.call[c] = MsiReturn(rec, -EINVAL)]
            ELSE IF ~user_ok
            THEN [msi EXCEPT !.call[c] = MsiReturn(rec, -EFAULT)]
            ELSE IF q.ret < 0
            THEN [msi EXCEPT !.fw = q.fw, !.call[c] = MsiReturn(asked, q.ret)]
            ELSE [msi EXCEPT !.fw = q.fw,
                             !.call[c] = [asked EXCEPT !.pc = "commit"]]
  /\ UNCHANGED <<lvars, zvars>>

\* down_write; memcpy(data->buffer, payload, data->length); up_write;
\* return length
msi_wmi_platform_debugfs_commit(c) ==
  /\ msi.call[c].pc = "commit"
  /\ msi' = [msi EXCEPT !.buffer = msi.call[c].buffer,
                        !.call[c] = MsiReturn(@, @.count)]
  /\ UNCHANGED <<lvars, zvars>>

\* msi_wmi_platform_debugfs_show: seq_write of data->buffer under down_read
msi_wmi_platform_debugfs_show(c) ==
  /\ msi.call[c].pc = "idle"
  /\ msi' = [msi EXCEPT !.call[c] =
               MsiReturn([MsiIdle EXCEPT !.fn = "msi_wmi_platform_debugfs_show",
                                         !.buffer = msi.buffer], 0)]
  /\ UNCHANGED <<lvars, zvars>>

\* the caller is back in user space
MsiFinish(c) ==
  /\ msi.call[c].pc = "done"
  /\ msi' = [msi EXCEPT !.call[c] = MsiIdle]
  /\ UNCHANGED <<lvars, zvars>>

(***************************************************************************)
(* Initial state: legos_cfg_probe has returned.                            *)
(***************************************************************************)
InitLegos ==
  /\ hdev_ep \in {LEGION_GO_S_CFG_INTF_IN, OTHER_INTF}
  /\ cfg_mutex = 0
  /\ done = 0
  /\ last_cmd_ret = 0
  /\ last_cmd_val = 0
  /\ mcu_id = Zeros(12)
  /\ mcu_ver = Zeros(4)
  /\ rgb_profile = 0
  /\ rgb_effect = 0
  /\ rgb_speed = 0
  /\ rgb_mode = 0
  /\ brightness = INIT_BRIGHTNESS
  /\ intensity = INIT_INTENSITY
  /\ th = [t \in Threads |-> IdleRec]
  /\ wire = <<>>
  /\ dev = [k \in StubKeys \cup LightKeys |->
            IF k \in LightKeys THEN Zeros(6) ELSE 0]
  /\ rx_ret = 0

Init ==
  /\ InitLegos
  /\ ZotacInit(DefaultCurveTemp, DefaultCurvePwm)
  /\ msi = MsiInit

\* the steps of mcu_property_out
Engine(t) ==
  \/ mcu_property_out_lock(t)
  \/ \E ok \in BOOLEAN, hw \in {GO_S_PACKET_SIZE, -1} :
       mcu_property_out_send(t, ok, hw)
  \/ \E w \in 1..MaxJiffies : mcu_property_out_wait_fired(t, w)
  \/ mcu_property_out_wait_timeout(t)
  \/ mcu_property_out_wait_interrupted(t)
  \/ mcu_property_out_unlock(t)

(***************************************************************************)
(* Spec: concurrent callers of one gamepad property, the MCU answering,    *)
(* late or not at all.                                                     *)
(***************************************************************************)
ConcBufs == {"dinput"}
ConcBytes == {0, 1, 5}
Sizes == {GO_S_PACKET_SIZE, GO_S_PACKET_SIZE - 1}

Next ==
  \/ \E t \in Threads :
       \/ \E buf \in ConcBufs :
            property_store(t, "gamepad_property_store", CFG_GAMEPAD_MODE, buf)
       \/ property_show(t, "gamepad_property_show", CFG_GAMEPAD_MODE)
       \/ Engine(t)
       \/ property_store_ret(t)
       \/ property_show_ret(t)
       \/ property_show_val(t)
       \/ Finish(t)
  \/ \E b \in ConcBytes, size \in Sizes : DeviceRespond(b, size)
  \/ DeviceDrop

Spec == Init /\ [][Next]_vars

(***************************************************************************)
(* Properties of the command engine under concurrent callers (Spec).       *)
(***************************************************************************)
InEngine(t) == th[t].pc \in {"send", "wait", "reinit"}

LiveRequests ==
  {i \in 1..Len(wire) : Live(wire[i], SubSeq(wire, i + 1, Len(wire)))}

\* C1: requests are serialized by cfg_mutex: a caller between the reset of
\* last_cmd_ret / last_cmd_val and the end of its wait owns the mutex, so no
\* other caller is there with it, and at most one request on the wire still
\* has an issuer waiting for it.
C1_Serialized ==
  /\ \A t \in Threads : InEngine(t) => cfg_mutex = t
  /\ \A t, u \in Threads : (InEngine(t) /\ InEngine(u)) => t = u
  /\ Cardinality(LiveRequests) <= 1

\* a caller waits for its response while another is blocked on the mutex
C1_Witness ==
  \E t, u \in Threads :
    /\ th[t].pc = "wait" /\ th[u].pc = "lock"
    /\ LiveRequests # {}

\* what a handler returns to its caller, and renders, from a response
\* <<last_cmd_ret, last_cmd_val>>
Expected(rec, cmd_ret, cmd_val) ==
  IF rec.fn \in StoreFns
  THEN <<IF cmd_ret # 0 THEN -cmd_ret ELSE rec.count, "">>
  ELSE IF cmd_ret # 0 THEN <<-cmd_ret, "">>
  ELSE <<ToSSizeT(ShowRender(rec.fn, rec.index, cmd_val)[1]),
         ShowRender(rec.fn, rec.index, cmd_val)[2]>>

\* C2: the status and value a get or set returns to its caller are those of
\* the response to the caller's own request, whatever other callers do.
C2_OwnResponseConsumed ==
  \A t \in Threads :
    (th[t].pc = "done" /\ th[t].woke = "fired" /\ th[t].own # <<>>)
      => <<th[t].result, th[t].text>> = Expected(th[t], th[t].own[1], th[t].own[2])

\* C3: a get whose request failed in the engine (not transmitted, or no
\* response within the timeout) returns that error and renders nothing.
C3_GetFailureReturned ==
  \A t \in Threads :
    (th[t].pc = "done" /\ th[t].fn \in ShowFns
       /\ (th[t].tx = "fail" \/ th[t].woke = "timeout"))
      => (th[t].result = th[t].ret /\ th[t].text = "")

\* C4: once the wait has ended, mcu_property_out's return value is -EBUSY
\* after a timeout and 0 after a fired completion, whatever last_cmd_ret is.
C4_WaitResult ==
  \A t \in Threads :
    (th[t].pc \in {"reinit", "consume"} /\ th[t].tx = "ok")
      => /\ th[t].woke = "timeout" => th[t].ret = -EBUSY
         /\ th[t].woke = "fired" => th[t].ret = 0

\* one caller timed out, another was woken by a response with an error status
C4_Witness ==
  \E t, u \in Threads :
    /\ th[t].pc = "consume" /\ th[t].woke = "timeout" /\ th[t].ret = -EBUSY
    /\ th[u].pc = "reinit" /\ th[u].woke = "fired" /\ th[u].ret = 0
    /\ last_cmd_ret # 0

\* C5: after a failed transmit the caller has the transport error, does not
\* own cfg_mutex and never waits for that request.
C5_SendFailure ==
  \A t \in Threads :
    th[t].tx = "fail"
      => /\ cfg_mutex # t
         /\ th[t].woke = "none"
         /\ th[t].pc \in {"consume", "consume2", "done"}
         /\ th[t].ret \in {-ENOMEM, -EINVAL}

\* a caller is back from a failed transmit
C5_Witness ==
  \E t \in Threads : th[t].tx = "fail" /\ th[t].pc = "consume" /\ th[t].ret < 0

BadSizes == Sizes \ {GO_S_PACKET_SIZE}
Waiting == {t \in Threads : th[t].pc = "wait"}

C8_StoreStatus ==
  \A t \in Threads :
    (th[t].pc = "done" /\ th[t].fn \in StoreFns /\ th[t].woke = "fired"
       /\ th[t].own # <<>>)
      => th[t].result = (IF th[t].own[3] = 0 THEN th[t].count ELSE -th[t].own[3])

\* the value bytes a get of the property accepts
ShowDomain(fn, index) ==
  CASE fn = "gamepad_property_show" /\ index = CFG_GAMEPAD_MODE ->
         0..(Len(GAMEPAD_MODE_TEXT) - 1)
    [] fn = "gamepad_property_show" /\ index = CFG_AUTO_SLP_TIME -> 0..255
    [] fn = "gamepad_property_show" /\ index = CFG_IMU_ENABLE ->
         0..(Len(IMU_ENABLED_TEXT) - 1)
    [] fn = "gamepad_property_show"
         /\ index \in {CFG_PASS_ENABLE, CFG_LIGHT_ENABLE, CFG_TPAD_ENABLE} ->
         0..(Len(FEATURE_ENABLE_STATUS_TEXT) - 1)
    [] fn = "gamepad_property_show" /\ index = CFG_OS_TYPE ->
         0..(Len(OS_TYPE_TEXT) - 1)
    [] fn = "gamepad_property_show" /\ index = CFG_POLL_RATE ->
         0..(Len(POLL_RATE_TEXT) - 1)
    [] fn = "gamepad_property_show" /\ index = CFG_DPAD_MODE ->
         0..(Len(DPAD_MODE_TEXT) - 1)
    [] fn = "gamepad_property_show" /\ index = CFG_MS_WHEEL_STEP -> 1..127
    [] fn = "touchpad_property_show"
         /\ index \in {CFG_WINDOWS_MODE, CFG_LINUX_MODE} ->
         0..(Len(TOUCHPAD_MODE_TEXT) - 1)
    [] fn = "test_property_show" /\ index = TEST_TP_MFR ->
         0..(Len(TP_MANUFACTURER_TEXT) - 1)
    [] fn = "test_property_show" /\ index = TEST_IMU_MFR ->
         0..(Len(IMU_MANUFACTURER_TEXT) - 1)
    [] fn = "test_property_show" /\ index = TEST_TP_VER -> 0..255
    [] OTHER -> {}

\* the caller's get was answered in time, with status 0 and a value byte
\* outside the property's domain
OutOfDomainGet(t) ==
  /\ th[t].pc = "done" /\ th[t].fn \in ShowFns
  /\ th[t].woke = "fired" /\ th[t].own # <<>>
  /\ th[t].own[1] = 0
  /\ th[t].own[2] \notin ShowDomain(th[t].fn, th[t].index)

\* C11: a get whose response carries a value byte outside the property's
\* domain returns an error and renders no label, whatever other callers do.
C11_OutOfDomainGetFails ==
  \A t \in Threads :
    OutOfDomainGet(t) => (th[t].result = -EINVAL /\ th[t].text = "")

(***************************************************************************)
(* SpecRx: every kind of frame reaches legos_cfg_raw_event, with a caller  *)
(* issuing requests and waiting.                                           *)
(***************************************************************************)
UNKNOWN_COMMAND == 100
RxCommands == (SEND_HEARTBEAT..SET_KEY_MAP)
                \cup {INT_EVENT_REPORT, GET_PL_TEST, SET_PL_TEST, UNKNOWN_COMMAND}
RxSubs(c) == IF c \in {GET_PL_TEST, GET_LIGHT_CFG} THEN 0..6 ELSE {1}
RxBytes(c) == IF c \in SetCommands THEN {0, 5} ELSE {5}
RxFrames ==
  UNION {{Frame(c, sub, [i \in 1..11 |-> b], 11) : sub \in RxSubs(c), b \in RxBytes(c)}
           : c \in RxCommands}
\* a frame of the wrong size is refused before its bytes are read
ShortFrame == Frame(GET_GAMEPAD_CFG, CFG_GAMEPAD_MODE, <<5>>, 1)

NextRx ==
  \/ property_show(1, "test_property_show", TEST_TP_VER)
  \/ mcu_property_out_lock(1)
  \/ mcu_property_out_send(1, TRUE, GO_S_PACKET_SIZE)
  \/ \E w \in 1..MaxJiffies : mcu_property_out_wait_fired(1, w)
  \/ mcu_property_out_wait_timeout(1)
  \/ mcu_property_out_unlock(1)
  \/ property_show_ret(1)
  \/ property_show_val(1)
  \/ Finish(1)
  \/ \E f \in RxFrames : RawNoise(f, GO_S_PACKET_SIZE)
  \/ RawNoise(ShortFrame, GO_S_PACKET_SIZE - 1)
  \/ DeviceDrop

SpecRx == Init /\ [][NextRx]_vars

\* the commands the switch of legos_cfg_raw_event names
RecognizedCommands ==
  {GET_VERSION, GET_MCU_ID, GET_GAMEPAD_CFG, GET_TP_PARAM, GET_PL_TEST,
   GET_LIGHT_CFG} \cup UnsupportedGets \cup SetCommands

\* a frame that is no supported response
Unsupported(f) ==
  \/ f.cmd \notin RecognizedCommands
  \/ f.cmd \in UnsupportedGets
  \/ f.cmd = GET_PL_TEST /\ f.sub_cmd \notin {TEST_TP_MFR, TEST_IMU_MFR, TEST_TP_VER}
  \/ f.cmd = GET_LIGHT_CFG
       /\ f.sub_cmd \notin LIGHT_MODE_SEL..USR_LIGHT_PROFILE_3

\* C7: every frame of the right size fires the completion exactly once, and
\* one that is no supported response leaves a non-zero last_cmd_ret (and
\* returns its negation to the transport).
C7_EveryFrameCompletes ==
  [][\A f \in RxFrames :
       RawNoise(f, GO_S_PACKET_SIZE)
         => /\ done' = done + 1
            /\ Unsupported(f) => (last_cmd_ret' # 0 /\ rx_ret' = -last_cmd_ret')]_vars

\* a waiting caller's completion was fired by a frame that is no supported
\* response
C7_Witness ==
  th[1].pc = "wait" /\ done = 1 /\ last_cmd_ret = EINVAL /\ rx_ret = -EINVAL

(***************************************************************************)
(* SpecRT: one caller sets and gets the enumeration properties against the *)
(* stub MCU, one property at a time.                                       *)
(***************************************************************************)
\* the enumeration properties: <<store, show, index, labels>>
EnumProperties ==
  {<<"gamepad_property_store", "gamepad_property_show", CFG_GAMEPAD_MODE,
     GAMEPAD_MODE_TEXT>>,
   <<"gamepad_property_store", "gamepad_property_show", CFG_IMU_ENABLE,
     IMU_ENABLED_TEXT>>,
   <<"gamepad_property_store", "gamepad_property_show", CFG_PASS_ENABLE,
     FEATURE_ENABLE_STATUS_TEXT>>,
   <<"gamepad_property_store", "gamepad_property_show", CFG_LIGHT_ENABLE,
     FEATURE_ENABLE_STATUS_TEXT>>,
   <<"gamepad_property_store", "gamepad_property_show", CFG_TPAD_ENABLE,
     FEATURE_ENABLE_STATUS_TEXT>>,
   <<"gamepad_property_store", "gamepad_property_show", CFG_OS_TYPE,
     OS_TYPE_TEXT>>,
   <<"gamepad_property_store", "gamepad_property_show", CFG_POLL_RATE,
     POLL_RATE_TEXT>>,
   <<"gamepad_property_store", "gamepad_property_show", CFG_DPAD_MODE,
     DPAD_MODE_TEXT>>,
   <<"touchpad_property_store", "touchpad_property_show", CFG_WINDOWS_MODE,
     TOUCHPAD_MODE_TEXT>>,
   <<"touchpad_property_store", "touchpad_property_show", CFG_LINUX_MODE,
     TOUCHPAD_MODE_TEXT>>}

Labels(p) == {p[4][i] : i \in 1..Len(p[4])}

\* the stub holds its initial value for every property but p
OnlyProperty(p) ==
  \A k \in StubKeys : k # <<StoreCmd(p[1]), p[3]>> => dev[k] = 0

NextRT ==
  \/ \E p \in EnumProperties :
       \/ \E buf \in Labels(p) : OnlyProperty(p) /\ property_store(1, p[1], p[3], buf)
       \/ OnlyProperty(p) /\ property_show(1, p[2], p[3])
  \/ mcu_property_out_lock(1)
  \/ mcu_property_out_send(1, TRUE, GO_S_PACKET_SIZE)
  \/ \E w \in 1..MaxJiffies : mcu_property_out_wait_fired(1, w)
  \/ mcu_property_out_unlock(1)
  \/ property_store_ret(1)
  \/ property_show_ret(1)
  \/ property_show_val(1)
  \/ FinishRemember(1)
  \/ StubRespond

SpecRT == Init /\ [][NextRT]_vars

\* C9: for every enumeration property and label, a get that follows a
\* successful set(label) renders that label.
C9_RoundTrip ==
  \A p \in EnumProperties :
    (/\ th[1].pc = "done" /\ th[1].fn = p[2] /\ th[1].index = p[3]
     /\ th[1].prev # <<>>
     /\ th[1].prev[1] = p[1] /\ th[1].prev[2] = p[3]
     /\ th[1].prev[3] \in Labels(p)
     /\ th[1].prev[4] = Len(th[1].prev[3]))
      => (th[1].text = th[1].prev[3]
          /\ th[1].result = Len(th[1].prev[3]) + 1)

\* the label "off-2sec" (wire value 2) came back after it was set
C9_Witness ==
  /\ th[1].pc = "done" /\ th[1].fn = "gamepad_property_show"
  /\ th[1].index = CFG_IMU_ENABLE /\ th[1].text = "off-2sec"
  /\ th[1].prev = <<"gamepad_property_store", CFG_IMU_ENABLE, "off-2sec", 8>>

(***************************************************************************)
(* SpecStore: one caller writes valid and invalid texts to every writable  *)
(* attribute; the MCU acknowledges what it receives.                       *)
(***************************************************************************)
UNKNOWN_INDEX == 2
StoreIndexes ==
  ({"gamepad_property_store"}
     \X {CFG_GAMEPAD_MODE, CFG_AUTO_SLP_TIME, CFG_PASS_ENABLE, CFG_LIGHT_ENABLE,
         CFG_IMU_ENABLE, CFG_TPAD_ENABLE, CFG_OS_TYPE, CFG_POLL_RATE,
         CFG_DPAD_MODE, CFG_MS_WHEEL_STEP, UNKNOWN_INDEX})
  \cup ({"touchpad_property_store"}
          \X {CFG_WINDOWS_MODE, CFG_LINUX_MODE, UNKNOWN_INDEX})
StoreBufs ==
  {"dinput", "true", "off-2sec", "linux", "1000", "4-way", "absolute",
   "custom", "rainbow", "bogus", "", HUGE_NUMBER}
    \cup {ToString(n) : n \in NumRange}

NextStore ==
  \/ \E p \in StoreIndexes, buf \in StoreBufs : property_store(1, p[1], p[2], buf)
  \/ \E buf \in StoreBufs : rgb_effect_store(1, buf)
  \/ \E buf \in StoreBufs : rgb_speed_store(1, buf)
  \/ \E buf \in StoreBufs : rgb_mode_store(1, buf)
  \/ \E buf \in StoreBufs : rgb_profile_store(1, buf)
  \/ rgb_attr_store(1)
  \/ mcu_property_out_lock(1)
  \/ mcu_property_out_send(1, TRUE, GO_S_PACKET_SIZE)
  \/ \E w \in 1..MaxJiffies : mcu_property_out_wait_fired(1, w)
  \/ mcu_property_out_unlock(1)
  \/ property_store_ret(1)
  \/ rgb_cfg_call_ret(1)
  \/ rgb_store_ret(1)
  \/ Finish(1)
  \/ DeviceRespond(0, GO_S_PACKET_SIZE)

SpecStore == Init /\ [][NextStore]_vars

\* the numeric domains [min,max] of the writable attributes
NumericDomain(fn, index) ==
  CASE fn = "gamepad_property_store" /\ index = CFG_MS_WHEEL_STEP -> 1..127
    [] fn = "gamepad_property_store" /\ index = CFG_AUTO_SLP_TIME -> 0..255
    [] fn = "rgb_speed_store" -> 0..100
    [] fn = "rgb_profile_store" -> 1..3
    [] OTHER -> {}

\* the enumerations of the writable attributes
LabelDomain(fn, index) ==
  CASE fn = "gamepad_property_store" /\ index = CFG_GAMEPAD_MODE ->
         GAMEPAD_MODE_TEXT
    [] fn = "gamepad_property_store" /\ index = CFG_IMU_ENABLE ->
         IMU_ENABLED_TEXT
    [] fn = "gamepad_property_store"
         /\ index \in {CFG_PASS_ENABLE, CFG_LIGHT_ENABLE, CFG_TPAD_ENABLE} ->
         FEATURE_ENABLE_STATUS_TEXT
    [] fn = "gamepad_property_store" /\ index = CFG_OS_TYPE -> OS_TYPE_TEXT
    [] fn = "gamepad_property_store" /\ index = CFG_POLL_RATE -> POLL_RATE_TEXT
    [] fn = "gamepad_property_store" /\ index = CFG_DPAD_MODE -> DPAD_MODE_TEXT
    [] fn = "touchpad_property_store"
         /\ index \in {CFG_WINDOWS_MODE, CFG_LINUX_MODE} -> TOUCHPAD_MODE_TEXT
    [] fn = "rgb_effect_store" -> RGB_EFFECT_TEXT
    [] fn = "rgb_mode_store" -> RGB_MODE_TEXT
    [] OTHER -> <<>>

InDomain(fn, index, buf) ==
  \/ IsNumber(buf) /\ NumberOf(buf) \in NumericDomain(fn, index)
  \/ \E i \in 1..Len(LabelDomain(fn, index)) : LabelDomain(fn, index)[i] = buf

AllStoreFns == StoreFns \cup RgbStoreFns

\* a set whose value is outside the attribute's domain has returned
RejectedSet(t) ==
  /\ th[t].pc = "done"
  /\ th[t].fn \in AllStoreFns
  /\ ~InDomain(th[t].fn, th[t].index, th[t].buf)

\* the text is a number too large for the type the handler parses into
Overflows(fn, buf) ==
  \/ buf = HUGE_NUMBER
  \/ /\ fn \in {"gamepad_property_store", "rgb_profile_store"}
     /\ IsNumber(buf) /\ NumberOf(buf) > 255

legos_rgb_color_set(t, b) ==
  /\ Ready(t)
  /\ brightness' = b
  /\ th' = [th EXCEPT ![t] =
              [NewCall(t, "legos_rgb_color_set", 0, "") EXCEPT !.pc = "rgb_attr"]]
  /\ UNCHANGED <<msi, zvars, hdev_ep, cfg_mutex, done, last_cmd_ret, last_cmd_val, idvars,
                 rgb_profile, rgb_effect, rgb_speed, rgb_mode, intensity,
                 wire, dev, rx_ret>>

\* legos_rgb_color_set after rgb_attr_store returned: the error is logged,
\* nothing is returned (result keeps rgb_attr_store's value)
legos_rgb_color_set_ret(t) ==
  LET r == RgbCfgCallResult(th[t].ret, last_cmd_ret)
  IN
  /\ th[t].pc = "consume"
  /\ th[t].fn = "legos_rgb_color_set"
  /\ th' = [th EXCEPT ![t] =
              Return(@, IF r < 0 THEN r
                        ELSE IF last_cmd_ret # 0 THEN -last_cmd_ret ELSE 0, "")]
  /\ UNCHANGED <<msi, zvars, hdev_ep, cfg_mutex, done, last_cmd_ret, last_cmd_val, idvars,
                 rgbvars, wire, dev, rx_ret>>

RgbEffects == {"rainbow"}
RgbSpeeds == {"100"}
RgbModes == {"dynamic", "custom"}
LedBrightness == {100}

NextRgb ==
  \/ \E t \in Threads :
       \/ \E buf \in RgbEffects : rgb_effect_store(t, buf)
       \/ \E buf \in RgbSpeeds : rgb_speed_store(t, buf)
       \/ \E b \in LedBrightness : legos_rgb_color_set(t, b)
       \/ \E buf \in RgbModes : rgb_mode_store(t, buf)
       \/ rgb_attr_store(t)
       \/ mcu_property_out_lock(t)
       \/ mcu_property_out_send(t, TRUE, GO_S_PACKET_SIZE)
       \/ \E w \in 1..MaxJiffies : mcu_property_out_wait_fired(t, w)
       \/ mcu_property_out_unlock(t)
       \/ rgb_cfg_call_ret(t)
       \/ rgb_store_ret(t)
       \/ legos_rgb_color_set_ret(t)
       \/ Finish(t)
  \/ DeviceRespond(0, GO_S_PACKET_SIZE)

SpecRgb == Init /\ [][NextRgb]_vars

\* the setters that end in rgb_write_profile
ProfileWriters == RgbAttrFns \cup {"legos_rgb_color_set"}

\* caller t transmits its request in this step
Transmits(t) == th[t].pc = "send" /\ th'[t].tx = "ok"

\* C12: a profile write made while the cached lighting mode is not Custom
\* fails with -EINVAL, and no profile payload is transmitted while the cached
\* lighting mode is not Custom, whichever setter wrote it and whatever a
\* concurrent rgb_mode_store does.
C12_ProfileWriteGated ==
  [][\A t \in Threads :
       /\ (rgb_attr_store(t) /\ rgb_mode # RGB_MODE_CUSTOM)
            => (th'[t].pc = "done" /\ th'[t].result = -EINVAL
                /\ th'[t].tx = "none")
       /\ (Transmits(t) /\ th[t].fn \in ProfileWriters)
            => rgb_mode = RGB_MODE_CUSTOM]_vars


(***************************************************************************)
(* SpecFan: fan1_mode stores from concurrent callers, the curve timer and  *)
(* its callback, a changing temperature, and module exit.                  *)
(***************************************************************************)
ModeBufs == {"0", "1", "2", "3", "bogus"}

set_fan_mode(c) ==
  \/ set_fan_mode_flag(c)
  \/ set_fan_mode_del_timer(c)
  \/ set_fan_mode_write(c)
  \/ set_fan_mode_mode(c)
  \/ set_fan_mode_arm(c)

NextFan ==
  \/ \E c \in Callers, buf \in ModeBufs : fan1_mode_store(c, buf)
  \/ \E c \in Callers : set_fan_mode(c)
  \/ \E c \in Callers : ZFinish(c)
  \/ timer_fire
  \/ fan_curve_function
  \/ zotac_fan_probe
  \/ zotac_fan_exit_del_timer_sync
  \/ zotac_fan_exit_unregister

\* the HID device is not part of this specification
InitFan == Init /\ hdev_ep = LEGION_GO_S_CFG_INTF_IN

SpecFan == InitFan /\ [][NextFan]_vars

InSetFanMode(c) ==
  zc[c].pc \in {"set_fan_mode", "sfm_del", "sfm_write", "sfm_mode", "sfm_arm"}

\* C13: the only values ever written to the EC fan control register are Auto
\* and Manual; a Curve request sets data->curve_enabled and writes Manual; a
\* fan1_mode value other than 0, 1, 2 is rejected before set_fan_mode, so
\* without an EC write.
C13_OnlyAutoManualWritten ==
  /\ [](/\ zlog.ctrl \subseteq {EC_FAN_MODE_AUTO, EC_FAN_MODE_MANUAL}
        /\ ec.ctrl \in {EC_FAN_MODE_AUTO, EC_FAN_MODE_MANUAL}
        /\ \A c \in Callers :
             InSetFanMode(c) =>
               zc[c].arg \in {EC_FAN_MODE_AUTO, EC_FAN_MODE_MANUAL,
                              EC_FAN_MODE_CURVE})
  /\ [][\A c \in Callers :
          /\ (set_fan_mode_flag(c) /\ zc[c].arg = EC_FAN_MODE_CURVE)
               => data'.curve_enabled
          /\ (set_fan_mode_write(c) /\ zc[c].arg = EC_FAN_MODE_CURVE)
               => (ec'.ctrl = EC_FAN_MODE_MANUAL
                   /\ zlog'.ctrl = zlog.ctrl \cup {EC_FAN_MODE_MANUAL})
          /\ (\E buf \in ModeBufs :
                /\ fan1_mode_store(c, buf)
                /\ kstrtoul(buf)[2] \notin {EC_FAN_MODE_AUTO,
                                            EC_FAN_MODE_MANUAL,
                                            EC_FAN_MODE_CURVE})
               => (zc'[c].pc = "done" /\ zc'[c].result = -EINVAL
                   /\ ec' = ec)]_vars

\* a Curve request has returned with Manual in the register and the overlay
\* on, and a request for mode 3 has been rejected with the register untouched
C13_Witness ==
  /\ zc[1].pc = "done" /\ zc[1].fn = "fan1_mode_store"
  /\ zc[1].arg = EC_FAN_MODE_CURVE /\ zc[1].result = zc[1].count
  /\ ec.ctrl = EC_FAN_MODE_MANUAL /\ data.curve_enabled
  /\ zlog.ctrl = {EC_FAN_MODE_MANUAL}
  /\ zc[2].pc = "done" /\ zc[2].fn = "fan1_mode_store"
  /\ zc[2].result = -EINVAL

\* the last two completed fan1_mode stores asked for Curve and then for Auto
\* or Manual, and no store is in progress
LeftCurve ==
  /\ \A c \in Callers : ~InSetFanMode(c)
  /\ Len(zlog.requested) = 2
  /\ zlog.requested[1] = EC_FAN_MODE_CURVE
  /\ zlog.requested[2] \in {EC_FAN_MODE_AUTO, EC_FAN_MODE_MANUAL}

\* C14: after Curve and then Auto (or Manual) the EC control register holds
\* the requested mode, the curve timer is not armed, and fan_curve_function
\* writes no further duty to the EC, however the switch interleaves with the
\* timer's ticks.
C14_CurveLeft ==
  /\ [](LeftCurve => (ec.ctrl = zlog.requested[2] /\ ~fan_curve_timer.pending))
  /\ [][LeftCurve => ~fan_curve_function_eval]_vars

(***************************************************************************)
(* SpecCurve: the curve evaluator on stored tables.  The table is any of   *)
(* CurveTemps x CurvePwms (the point attributes accept every temperature   *)
(* and every pwm up to 100, in any order); one caller turns Curve on and   *)
(* the ticks evaluate the temperatures the EC reports.                     *)
(***************************************************************************)
LARGE_TEMP == 1000000

CurveTemps ==
  {DefaultCurveTemp,
   <<10, 13, 30, 40, 50, 60, 70, 80, LARGE_TEMP>>,
   <<50, 20, 30, 40, 10, 60, 70, 80, 90>>,
   <<10, 10, 20, 20, 30, 30, 40, 40, 50>>,
   <<90, 80, 70, 60, 50, 40, 30, 20, 10>>,
   <<10, -1, 30, 40, 50, 60, 70, 80, 90>>,
   <<-1, 30, INT_MAX, 50, 60, 70, 80, 90, INT_MIN>>,
   <<10, INT_MIN, 30, 40, 50, 60, 70, 80, 90>>}

CurvePwms ==
  {DefaultCurvePwm,
   <<30, 20, 100, 0, 50, 50, 7, 93, 40>>,
   <<100, 90, 80, 70, 60, 50, 40, 30, 20>>}

MeasuredTemps == {0, 10, 11, 15, 20, 45, 90, 255}

\* the temperature changes while the timer waits for its next expiry
MeasureBetweenTicks(temp) ==
  /\ TimerIdle
  /\ fan_curve_timer.pending
  /\ ec_measure(temp, 0, 0)

NextCurve ==
  \/ fan1_mode_store(1, "2")
  \/ set_fan_mode_flag(1)
  \/ set_fan_mode_write(1)
  \/ set_fan_mode_mode(1)
  \/ set_fan_mode_arm(1)
  \/ ZFinish(1)
  \/ timer_fire
  \/ fan_curve_function_check
  \/ fan_curve_function_lock
  \/ fan_curve_function_sample
  \/ fan_curve_function_eval
  \/ fan_curve_function_unlock
  \/ fan_curve_function_rearm
  \/ \E temp \in MeasuredTemps : MeasureBetweenTicks(temp)
  \/ zotac_fan_probe

InitCurve ==
  /\ InitLegos
  /\ hdev_ep = LEGION_GO_S_CFG_INTF_IN
  /\ \E curve_temp \in CurveTemps, curve_pwm \in CurvePwms :
       ZotacInit(curve_temp, curve_pwm)
  /\ msi = MsiInit

SpecCurve == InitCurve /\ [][NextCurve]_vars

\* the intervals [temp[i], temp[i+1]) that hold t
Intervals(temp, t) ==
  {i \in 1..(FAN_CURVE_POINTS - 1) : UGeq(t, temp[i]) /\ ULess(t, temp[i + 1])}

Lowest(S) == CHOOSE i \in S : \A j \in S : i <= j

\* quotient rounded toward zero
Quotient(a, b) ==
  LET q == (IF a < 0 THEN -a ELSE a) \div (IF b < 0 THEN -b ELSE b)
  IN IF (a < 0) = (b < 0) THEN q ELSE -q

\* the output the curve is specified to have
Interpolated(temp, pwm, t) ==
  IF UGeq(t, temp[FAN_CURVE_POINTS]) THEN pwm[FAN_CURVE_POINTS]
  ELSE IF Intervals(temp, t) = {} THEN pwm[1]
  ELSE LET i == Lowest(Intervals(temp, t))
       IN IF Int32Sub(temp[i + 1], temp[i]) <= 0
          THEN pwm[i]     \* a width of 2^31 or more: the quotient is 0
          ELSE pwm[i] + Quotient((pwm[i + 1] - pwm[i]) * (t - temp[i]),
                                 Int32Sub(temp[i + 1], temp[i]))

\* the tick has evaluated the curve and written the duty
Evaluated == fan_curve_timer.pc = "unlock"

\* C15: for every stored table and measured temperature t the evaluator's
\* output is pwm[8] when t >= temp[8]; else the interpolation with integer
\* division in the lowest interval temp[i] <= t < temp[i+1]; else pwm[0].
C15_CurveOutput ==
  Evaluated =>
    /\ fan_curve_timer.pwm =
         Interpolated(data.curve_temp, data.curve_pwm,
                      fan_curve_timer.current_temp)
    /\ ec.duty = DutyVal(fan_curve_timer.pwm)

\* points (10,20) and (20,30) with t = 15 give 25
C15_Witness ==
  /\ Evaluated
  /\ data.curve_temp[1] = 10 /\ data.curve_pwm[1] = 20
  /\ data.curve_temp[2] = 20 /\ data.curve_pwm[2] = 30
  /\ fan_curve_timer.current_temp = 15
  /\ fan_curve_timer.pwm = 25

\* the tick's output is the pwm of every breakpoint its temperature equals
AtBreakpoints ==
  \A i \in 1..FAN_CURVE_POINTS :
    fan_curve_timer.current_temp = data.curve_temp[i]
      => fan_curve_timer.pwm = data.curve_pwm[i]

\* C16 as stated: for every stored table and every breakpoint index i, a
\* measured temperature of exactly temp[i] gives exactly pwm[i].
C16_Breakpoint == Evaluated => AtBreakpoints

StrictlyIncreasing(temp) ==
  \A i \in 1..(FAN_CURVE_POINTS - 1) : ULess(temp[i], temp[i + 1])

\* C16 amended: for every stored table whose temperatures are strictly
\* increasing and every breakpoint index i, a measured temperature of exactly
\* temp[i] gives exactly pwm[i].
C16_BreakpointIncreasing ==
  (Evaluated /\ StrictlyIncreasing(data.curve_temp)) => AtBreakpoints

\* a tick evaluated the highest breakpoint of an increasing table
C16_Witness ==
  /\ Evaluated
  /\ StrictlyIncreasing(data.curve_temp)
  /\ fan_curve_timer.current_temp = data.curve_temp[FAN_CURVE_POINTS]
  /\ fan_curve_timer.pwm = data.curve_pwm[FAN_CURVE_POINTS]
  /\ data.curve_pwm[FAN_CURVE_POINTS] # data.curve_pwm[1]

(***************************************************************************)
(* SpecCache: a reader of the fan telemetry, the clock, a changing EC,     *)
(* probe's own refresh, and the curve timer once Curve has been asked for. *)
(***************************************************************************)
TelemetryFns == {"fan1_input_show", "fan1_duty_show", "temp1_input_show"}
EcSamples == {<<0, 0, 0>>, <<15, 1, 2>>}

NextCache ==
  \/ \E fn \in TelemetryFns : zotac_fan_update_device(1, fn)
  \/ zotac_fan_update_device_lock(1)
  \/ zotac_fan_update_device_read(1)
  \/ zotac_fan_update_device_unlock(1)
  \/ zotac_show_ret(1)
  \/ ZFinish(1)
  \/ jiffies_tick
  \/ \E e \in EcSamples : ec_measure(e[1], e[2], e[3])
  \/ fan1_mode_store(NCallers, "2")
  \/ set_fan_mode_flag(NCallers)
  \/ set_fan_mode_write(NCallers)
  \/ set_fan_mode_mode(NCallers)
  \/ set_fan_mode_arm(NCallers)
  \/ timer_fire
  \/ fan_curve_function_check
  \/ fan_curve_function_lock
  \/ fan_curve_function_sample
  \/ fan_curve_function_eval
  \/ fan_curve_function_unlock
  \/ fan_curve_function_rearm
  \/ zotac_fan_probe

SpecCache == InitFan /\ [][NextCache]_vars

\* caller c is in a telemetry read, and its last read that refreshed the
\* cache was of the same attribute less than one second (HZ jiffies) earlier
Reread(c) ==
  /\ zc[c].fn \in TelemetryFns
  /\ zc[c].pc # "idle"
  /\ zc[c].prev # <<>>
  /\ zc[c].prev[1] = zc[c].fn
  /\ zc[c].now < zc[c].prev[2] + HZ

\* C17: a telemetry read made less than one second after a read that
\* refreshed the cache returns the same value and makes no EC read sequence
\* of its own; a read begun more than one second after the last refresh, or
\* on a cache never populated, makes one EC read sequence and stamps the
\* cache with the time it sampled.
C17_CacheTtl ==
  /\ [](\A c \in Callers :
          Reread(c) =>
            /\ ~zc[c].fresh
            /\ zc[c].pc = "done" => zc[c].vals[1] = zc[c].prev[3])
  /\ [][\A c \in Callers :
          /\ (\E fn \in TelemetryFns :
                /\ zotac_fan_update_device(c, fn)
                /\ (jiffies > data.last_updated + HZ \/ ~data.valid))
               => zc'[c].pc = "upd_lock"
          /\ zotac_fan_update_device_read(c)
               => (data'.last_updated = zc[c].now /\ data'.valid)]_vars

(***************************************************************************)
(* SpecSetup: the end of legos_cfg_probe and the deferred cfg_setup, with  *)
(* the MCU answering, staying silent or sending an event report, and the   *)
(* transport failing.  The worker's prev is the list of the steps it has   *)
(* finished: the request each made and the value each returned.            *)
(***************************************************************************)
SetupSteps == 5

\* legos_cfg_probe from init_completion on: the work is scheduled, return 0
legos_cfg_probe_ret(t) ==
  /\ Ready(t)
  /\ \A p \in Threads : th[p].fn = "none"
  /\ done' = 0
  /\ th' = [th EXCEPT ![t] =
              Return([IdleRec EXCEPT !.fn = "legos_cfg_probe"], 0, "")]
  /\ UNCHANGED <<msi, zvars, hdev_ep, cfg_mutex, last_cmd_ret, last_cmd_val, idvars,
                 rgbvars, wire, dev, rx_ret>>

\* schedule_delayed_work(&drvdata.legos_cfg_setup, ...) has been called
Scheduled ==
  \E p \in Threads : th[p].fn = "legos_cfg_probe" /\ th[p].pc = "done"

StepLog(rec, r) ==
  Append(rec.prev, [step |-> rec.index, cmd |-> rec.cmd, sub |-> rec.sub,
                    tx |-> rec.tx, ret |-> r])

\* cfg_setup goes on as if the step had succeeded
StepFailed_never(k, r) == FALSE

\* if (ret) return; after mcu_id_get and mcu_version_get, if (ret < 0)
\* return; after the three lighting calls
StepFailed(k, r) == IF k \in {1, 2} THEN r # 0 ELSE r < 0

\* an mcu_id_get that asks the MCU whatever is cached
mcu_id_get_always(rec) ==
  mcu_property_out_enter(rec, GET_MCU_ID, NONE, <<>>, 0)

\* mcu_id_get up to mcu_property_out: memcmp of mcu_id with null_id
mcu_id_get(rec) ==
  IF mcu_id # Zeros(12) THEN Return(rec, -ENOMEM, "")
  ELSE mcu_property_out_enter(rec, GET_MCU_ID, NONE, <<>>, 0)

\* mcu_version_get up to mcu_property_out: memcmp of mcu_ver with null_ver
mcu_version_get(rec) ==
  IF mcu_ver # Zeros(4) THEN Return(rec, -ENOMEM, "")
  ELSE mcu_property_out_enter(rec, GET_VERSION, NONE, <<>>, 0)

\* step k of cfg_setup up to mcu_property_out: mcu_id_get, mcu_version_get,
\* two rgb_cfg_call, rgb_attr_show
cfg_setup_call(k, log) ==
  LET rec == [IdleRec EXCEPT !.fn = "cfg_setup", !.index = k, !.prev = log]
      entered ==
        CASE k = 1 -> mcu_id_get(rec)
          [] k = 2 -> mcu_version_get(rec)
          [] k = 3 ->
               rgb_cfg_call_enter(rec, GET_LIGHT_CFG, LIGHT_MODE_SEL, <<>>, 0)
          [] k = 4 ->
               rgb_cfg_call_enter(rec, GET_LIGHT_CFG, LIGHT_PROFILE_SEL, <<>>, 0)
          [] OTHER ->
               rgb_cfg_call_enter(rec, GET_LIGHT_CFG, rgb_profile + 2, <<>>, 0)
  IN IF entered.pc = "done"
     THEN [entered EXCEPT !.prev = StepLog(rec, entered.result)]
     ELSE entered

\* the delayed work starts: ret = mcu_id_get()
cfg_setup(t) ==
  /\ Scheduled
  /\ Ready(t)
  /\ th[t].prev = <<>>
  /\ th' = [th EXCEPT ![t] = cfg_setup_call(1, <<>>)]
  /\ UNCHANGED <<msi, zvars, hdev_ep, cfg_mutex, done, last_cmd_ret, last_cmd_val,
                 idvars, rgbvars, wire, dev, rx_ret>>

\* the value step k returns once mcu_property_out has returned ret:
\* mcu_id_get and mcu_version_get: if (ret < 0) return ret; return
\* -drvdata.last_cmd_ret; the lighting calls: rgb_cfg_call
StepResult(k, ret, cmd_ret) ==
  IF k \in {1, 2} THEN (IF ret < 0 THEN ret ELSE -cmd_ret)
  ELSE RgbCfgCallResult(ret, cmd_ret)

\* a step has returned: cfg_setup returns on an error, else makes the next
\* call (rgb_attr_show reads drvdata.last_cmd_ret once more first)
cfg_setup_step(t) ==
  LET k == th[t].index
      r == StepResult(k, th[t].ret, last_cmd_ret)
      log == StepLog(th[t], r)
  IN
  /\ th[t].pc = "consume"
  /\ th[t].fn = "cfg_setup"
  /\ th' = [th EXCEPT ![t] =
              IF StepFailed(k, r)
              THEN Return([th[t] EXCEPT !.prev = log], r, "")
              ELSE IF k = SetupSteps THEN [th[t] EXCEPT !.pc = "consume2"]
              ELSE cfg_setup_call(k + 1, log)]
  /\ UNCHANGED <<msi, zvars, hdev_ep, cfg_mutex, done, last_cmd_ret, last_cmd_val,
                 idvars, rgbvars, wire, dev, rx_ret>>

\* rgb_attr_show: if (drvdata.last_cmd_ret) return -drvdata.last_cmd_ret;
\* return 0; and cfg_setup returns
cfg_setup_last(t) ==
  LET r == IF last_cmd_ret # 0 THEN -last_cmd_ret ELSE 0
  IN
  /\ th[t].pc = "consume2"
  /\ th[t].fn = "cfg_setup"
  /\ th' = [th EXCEPT ![t] =
              Return([th[t] EXCEPT !.prev = StepLog(th[t], r)], r, "")]
  /\ UNCHANGED <<msi, zvars, hdev_ep, cfg_mutex, done, last_cmd_ret, last_cmd_val,
                 idvars, rgbvars, wire, dev, rx_ret>>

SetupBytes == {1, 3}
EventReport == Frame(INT_EVENT_REPORT, 0, <<>>, 0)

NextSetup ==
  \/ legos_cfg_probe_ret(1)
  \/ cfg_setup(NThreads)
  \/ Engine(NThreads)
  \/ cfg_setup_step(NThreads)
  \/ cfg_setup_last(NThreads)
  \/ \E b \in SetupBytes : DeviceRespond(b, GO_S_PACKET_SIZE)
  \/ DeviceDrop
  \/ RawNoise(EventReport, GO_S_PACKET_SIZE)

SpecSetup == Init /\ [][NextSetup]_vars

\* the request of the k-th fetch: MCU ID, MCU version, lighting mode,
\* lighting profile selector, and the profile data at the index derived from
\* the cached selector
IsFetch(k, cmd, sub) ==
  CASE k = 1 -> cmd = GET_MCU_ID /\ sub = NONE
    [] k = 2 -> cmd = GET_VERSION /\ sub = NONE
    [] k = 3 -> cmd = GET_LIGHT_CFG /\ sub = LIGHT_MODE_SEL
    [] k = 4 -> cmd = GET_LIGHT_CFG /\ sub = LIGHT_PROFILE_SEL
    [] k = 5 -> cmd = GET_LIGHT_CFG
                /\ sub \in LIGHT_PROFILE_SEL..USR_LIGHT_PROFILE_3
    [] OTHER -> FALSE

C20_CompletionFresh ==
  [][\A t \in Threads : Transmits(t) => done = 0]_vars

\* C19: once zotac_fan_exit has cancelled the curve timer, the callback is
\* neither running nor armed, and it never runs again, whatever ticks and
\* fan1_mode stores interleave with the teardown.
C19_TimerCancelled ==
  /\ [](module_state \in {"cancelled", "unloaded"}
          => (TimerIdle /\ ~fan_curve_timer.pending))
  /\ [][(module_state \in {"cancelled", "unloaded"}) => ~(timer_fire)]_vars


(***************************************************************************)
(* Properties of the response path (SpecRx).                               *)
(***************************************************************************)
\* C21: a frame of the wrong length delivered to legos_cfg_raw_event leaves
\* last_cmd_ret, last_cmd_val, the cached MCU id and version, the RGB caches
\* and the completion as they were, and -EINVAL goes back to the transport.
C21_BadSizeNoEffect ==
  [][RawNoise(ShortFrame, GO_S_PACKET_SIZE - 1)
       => /\ UNCHANGED <<last_cmd_ret, last_cmd_val, mcu_id, mcu_ver, done>>
          /\ UNCHANGED rgbvars
          /\ rx_ret' = -EINVAL]_vars

\* the caches hold what earlier frames left there, the completion is fired,
\* and the last frame delivered was refused for its length
C21_Witness ==
  /\ rx_ret = -EINVAL /\ last_cmd_ret = 0 /\ last_cmd_val = 5
  /\ mcu_id # Zeros(12) /\ rgb_mode = 5 /\ done > 0

\* C23: legos_cfg_raw_event runs in every state, whoever holds cfg_mutex and
\* whoever waits; it leaves the mutex and the callers alone; and a frame
\* delivered while the issuer is parked on the completion fires it, so the
\* issuer's wait can end.
C23_ResponsePathNeverBlocks ==
  /\ [](done < MaxDone
          => \A f \in RxFrames : ENABLED RawNoise(f, GO_S_PACKET_SIZE))
  /\ [][\A f \in RxFrames :
          RawNoise(f, GO_S_PACKET_SIZE)
            => /\ cfg_mutex' = cfg_mutex
               /\ th' = th
               /\ \A t \in Threads : th[t].pc = "wait" => done' > 0]_vars
  /\ [](\A t \in Threads :
          (th[t].pc = "wait" /\ done > 0)
            => ENABLED mcu_property_out_wait_fired(t, 1))

\* a frame was handled while the issuer held cfg_mutex and waited
C23_Witness ==
  /\ th[1].pc = "wait" /\ cfg_mutex = 1
  /\ done = 1 /\ last_cmd_val = 5 /\ rx_ret = 0

(***************************************************************************)
(* SpecLive: concurrent readers of one gamepad property under fair         *)
(* scheduling.  A caller inside mcu_property_out keeps running (the wait   *)
(* ends by the completion, the 5 ms timeout or a signal), and a caller     *)
(* blocked in mutex_lock gets the mutex once it is free often enough (the  *)
(* kernel's mutex hands the lock over to a waiter that has been bypassed). *)
(***************************************************************************)
LiveBytes == {5}

NextLive ==
  \/ \E t \in Threads :
       \/ property_show(t, "gamepad_property_show", CFG_GAMEPAD_MODE)
       \/ Engine(t)
       \/ property_show_ret(t)
       \/ property_show_val(t)
       \/ Finish(t)
  \/ \E b \in LiveBytes : DeviceRespond(b, GO_S_PACKET_SIZE)
  \/ DeviceDrop

\* the steps of a caller that holds cfg_mutex
Holding(t) ==
  \/ \E ok \in BOOLEAN, hw \in {GO_S_PACKET_SIZE, -1} :
       mcu_property_out_send(t, ok, hw)
  \/ \E w \in 1..MaxJiffies : mcu_property_out_wait_fired(t, w)
  \/ mcu_property_out_wait_timeout(t)
  \/ mcu_property_out_wait_interrupted(t)
  \/ mcu_property_out_unlock(t)

SpecLive ==
  /\ Init
  /\ [][NextLive]_vars
  /\ \A t \in Threads : WF_vars(Holding(t)) /\ SF_vars(mcu_property_out_lock(t))

\* C22: a caller that holds cfg_mutex in mcu_property_out returns from it; a
\* caller outside mcu_property_out does not own cfg_mutex, by whichever path
\* it returned; and a caller blocked on the mutex acquires it, whether or not
\* the device answers.
C22_EngineTerminates ==
  /\ \A t \in Threads : InEngine(t) ~> (th[t].pc = "consume")
  /\ \A t \in Threads : (th[t].pc = "lock") ~> (cfg_mutex = t)
  /\ [](\A t \in Threads : ~InEngine(t) => cfg_mutex # t)

\* a caller is blocked on the mutex while its owner waits for a response
\* that will not come
C22_Witness ==
  \E t, u \in Threads :
    /\ th[t].pc = "lock" /\ th[u].pc = "wait" /\ cfg_mutex = u
    /\ wire = <<>> /\ done = 0

(***************************************************************************)
(* SpecLight: one caller writes the lighting attributes and reads the      *)
(* profile back, one call after the other, against the stub MCU's lighting *)
(* registers.  The caller's prev is the call it made before.               *)
(***************************************************************************)
LightEffects == {"rainbow"}
LightSpeeds == {"100"}
LightModes == {"dynamic", "custom"}
LightProfiles == {"0", "3"}
LightBrightness == {100}

NextLight ==
  \/ \E buf \in LightEffects : rgb_effect_store(1, buf)
  \/ \E buf \in LightSpeeds : rgb_speed_store(1, buf)
  \/ \E b \in LightBrightness : legos_rgb_color_set(1, b)
  \/ \E buf \in LightModes : rgb_mode_store(1, buf)
  \/ \E buf \in LightProfiles : rgb_profile_store(1, buf)
  \/ rgb_attr_store(1)
  \/ \E fn \in RgbProfileShowFns : rgb_attr_show(1, fn)
  \/ mcu_property_out_lock(1)
  \/ mcu_property_out_send(1, TRUE, GO_S_PACKET_SIZE)
  \/ \E w \in 1..MaxJiffies : mcu_property_out_wait_fired(1, w)
  \/ mcu_property_out_unlock(1)
  \/ rgb_cfg_call_ret(1)
  \/ rgb_store_ret(1)
  \/ legos_rgb_color_set_ret(1)
  \/ rgb_show_ret(1)
  \/ rgb_show_val(1)
  \/ FinishRemember(1)
  \/ LightStubRespond

SpecLight == InitFan /\ [][NextLight]_vars

(***************************************************************************)
(* SpecLightDev: one caller reads the lighting attributes from an MCU that *)
(* reports any byte, answers late or not at all.                           *)
(***************************************************************************)
LightBytes == {0, 1, 5}

NextLightDev ==
  \/ rgb_mode_show(1)
  \/ rgb_profile_show(1)
  \/ \E fn \in RgbProfileShowFns : rgb_attr_show(1, fn)
  \/ Engine(1)
  \/ rgb_show_ret(1)
  \/ rgb_show_val(1)
  \/ Finish(1)
  \/ \E b \in LightBytes : DeviceRespond(b, GO_S_PACKET_SIZE)
  \/ DeviceDrop

SpecLightDev == Init /\ [][NextLightDev]_vars

\* the handlers that go through rgb_profile_call
ProfileCallers == ProfileWriters \cup RgbProfileShowFns

\* C24: a request made through rgb_profile_call carries one of the profile
\* indexes 3, 4, 5, never the mode-select index 1 or the profile-select
\* index 2, whatever selector is cached.
C24_ProfileIndex ==
  \A t \in Threads :
    (th[t].fn \in ProfileCallers /\ th[t].pc \in {"lock", "send", "wait", "reinit"})
      => th[t].sub \in ProfileIndexes

\* the call before was a profile write that returned success
WroteProfile(rec) ==
  /\ rec.prev # <<>>
  /\ rec.prev[1] \in ProfileWriters
  /\ rec.prev[4] >= 0

\* C25: against the stub, a profile read that follows a profile write leaves
\* effect, the three intensities, brightness and speed as they were written:
\* the response's bytes are taken in the order the payload was built in.
C25_ProfileRoundTrip ==
  [][(LightStubRespond /\ th[1].pc = "wait"
        /\ th[1].fn \in RgbProfileShowFns /\ WroteProfile(th[1]))
       => UNCHANGED <<rgb_effect, intensity, brightness, rgb_speed>>]_vars

\* speed 100 was written to profile 3 in Custom mode and read back: the
\* caches hold the written effect, intensities, brightness and speed
C25_Witness ==
  /\ th[1].pc = "done" /\ th[1].fn = "rgb_speed_show" /\ th[1].text = "100"
  /\ WroteProfile(th[1]) /\ th[1].prev[1] = "rgb_speed_store"
  /\ rgb_mode = RGB_MODE_CUSTOM /\ rgb_profile = 3
  /\ rgb_speed = 100 /\ brightness = 100 /\ rgb_effect = 3
  /\ intensity = INIT_INTENSITY
  /\ dev[<<SET_LIGHT_CFG, USR_LIGHT_PROFILE_3>>] = <<3, 36, 34, 153, 100, 100>>

\* the values each getter's attribute can take
RgbDomain(fn) ==
  CASE fn = "rgb_mode_show" -> RGB_MODE_DYNAMIC..RGB_MODE_CUSTOM
    [] fn = "rgb_effect_show" -> 0..(Len(RGB_EFFECT_TEXT) - 1)
    [] fn = "rgb_profile_show" -> 1..3

\* the cached value the getter renders
RgbCached(fn) ==
  CASE fn = "rgb_mode_show" -> rgb_mode
    [] fn = "rgb_effect_show" -> rgb_effect
    [] fn = "rgb_profile_show" -> rgb_profile

\* C26: rgb_mode_show, rgb_effect_show and rgb_profile_show return an error
\* and render nothing when the value the device reported to them, now in the
\* cache, is outside the attribute's domain.
C26_RgbReadsValidated ==
  \A t \in Threads :
    (/\ th[t].pc = "done"
     /\ th[t].fn \in RgbShowFns \ {"rgb_speed_show"}
     /\ th[t].woke = "fired" /\ th[t].own # <<>> /\ th[t].own[1] = 0
     /\ RgbCached(th[t].fn) = th[t].own[3]
     /\ th[t].own[3] \notin RgbDomain(th[t].fn))
      => (th[t].result < 0 /\ th[t].text = "")

(***************************************************************************)
(* SpecIdent: the device is unbound and bound again: legos_cfg_remove,     *)
(* legos_cfg_probe and cfg_setup run once more on the same drvdata, whose  *)
(* cached identity legos_cfg_probe does not reset.  The MCU answers with   *)
(* zeros or with ones, late or not at all.                                 *)
(***************************************************************************)
\* legos_cfg_remove: cancel_delayed_work_sync returns once cfg_setup is not
\* running, sysfs_remove_groups once no handler is inside an attribute
legos_cfg_remove ==
  /\ Scheduled
  /\ \A t \in Threads : th[t].pc \in {"idle", "done"}
  /\ th' = [t \in Threads |-> IdleRec]
  /\ UNCHANGED <<msi, zvars, hdev_ep, cfg_mutex, done, last_cmd_ret, last_cmd_val,
                 idvars, rgbvars, wire, dev, rx_ret>>

IdentBytes == {0, 1}

NextIdent ==
  \/ legos_cfg_probe_ret(1)
  \/ cfg_setup(NThreads)
  \/ Engine(NThreads)
  \/ cfg_setup_step(NThreads)
  \/ cfg_setup_last(NThreads)
  \/ \E b \in IdentBytes : DeviceRespond(b, GO_S_PACKET_SIZE)
  \/ DeviceDrop
  \/ legos_cfg_remove

SpecIdent == InitFan /\ [][NextIdent]_vars

\* the step is cfg_setup's call of mcu_version_get
CallsVersionGet(t) ==
  cfg_setup_step(t) /\ th[t].index = 1 /\ th'[t].index = 2

\* the call returned -ENOMEM without a request
NotAsked(rec) ==
  rec.pc = "done" /\ rec.tx = "none" /\ rec.result = -ENOMEM

\* C27: mcu_id_get and mcu_version_get ask the MCU exactly when the cached
\* value is all zero at the call: with a non-zero value cached they return
\* without a request, in every later run of cfg_setup; and the cached value
\* is all zero after an all-zero response, so the next call asks again.
C27_IdentityFetchedOnce ==
  [][/\ \A t \in Threads :
          /\ cfg_setup(t)
               => IF mcu_id # Zeros(12) THEN NotAsked(th'[t])
                  ELSE th'[t].pc = "lock" /\ th'[t].cmd = GET_MCU_ID
          /\ CallsVersionGet(t)
               => IF mcu_ver # Zeros(4) THEN NotAsked(th'[t])
                  ELSE th'[t].pc = "lock" /\ th'[t].cmd = GET_VERSION
     /\ \A b \in IdentBytes :
          (DeviceRespond(b, GO_S_PACKET_SIZE) /\ wire # <<>>)
            => /\ Head(wire).frame.cmd = GET_MCU_ID
                    => (mcu_id' = Zeros(12) <=> b = 0)
               /\ Head(wire).frame.cmd = GET_VERSION
                    => (mcu_ver' = Zeros(4) <=> b = 0)]_vars

\* after a rebind cfg_setup found the MCU id cached and returned at its first
\* step without a request; the version is still all zero
C27_Witness ==
  /\ th[NThreads].fn = "cfg_setup" /\ th[NThreads].pc = "done"
  /\ Len(th[NThreads].prev) = 1
  /\ th[NThreads].prev[1].tx = "none" /\ th[NThreads].prev[1].ret = -ENOMEM
  /\ mcu_id # Zeros(12) /\ mcu_ver = Zeros(4) /\ wire = <<>>


(***************************************************************************)
(* SpecTick: fan1_mode stores of Auto and Curve from concurrent callers    *)
(* and the curve timer, with the progress the kernel gives them: an armed  *)
(* timer expires, a running callback and a handler inside set_fan_mode go  *)
(* on.  User space is free to stop storing.                                *)
(***************************************************************************)
TickBufs == {"0", "2"}

NextTick ==
  \/ \E c \in Callers, buf \in TickBufs : fan1_mode_store(c, buf)
  \/ \E c \in Callers : set_fan_mode(c)
  \/ \E c \in Callers : ZFinish(c)
  \/ timer_fire
  \/ fan_curve_function
  \/ jiffies_tick
  \/ zotac_fan_probe

SpecTick ==
  /\ InitFan
  /\ [][NextTick]_vars
  /\ WF_vars(timer_fire)
  /\ WF_vars(fan_curve_function)
  /\ \A c \in Callers : WF_vars(set_fan_mode(c))

\* C28: a tick that reaches its end arms the timer for jiffies + HZ and
\* leaves Curve mode as it is, and once Curve mode stays enabled the ticks
\* recur for ever
C28_TicksRecur ==
  /\ [][fan_curve_function_rearm =>
          /\ fan_curve_timer'.pending
          /\ fan_curve_timer'.expires = jiffies + HZ
          /\ data' = data]_vars
  /\ (<>[]data.curve_enabled) => []<>(fan_curve_timer.pc = "rearm")

\* C29: every step that changes a field of the fan state is one of the steps
\* taken inside update_lock, and the contexts at those steps hold the lock
C29_WritesUnderLock ==
  /\ [][data' # data =>
          \/ fan_curve_function_sample
          \/ \E c \in Callers : zotac_fan_update_device_read(c)
          \/ \E c \in Callers : pwm1_auto_point_write(c)
          \/ zotac_fan_probe]_vars
  /\ [](fan_curve_timer.pc \in {"sample", "eval", "unlock"}
          => update_lock = "timer")
  /\ [](\A c \in Callers : zc[c].pc \in {"upd_read", "upd_unlock"}
          => update_lock = "caller")

(***************************************************************************)
(* SpecPort: EC accesses port by port from every context that makes them,  *)
(* with no other lock between them: the sysfs callers read the five         *)
(* registers (zotac_fan_update_device) and write the control and the duty   *)
(* register (set_fan_mode, set_fan_duty), the timer callback reads the      *)
(* temperature and writes the duty (fan_curve_function), and the EC         *)
(* measures.                                                                *)
(***************************************************************************)
ReadAddrs ==
  {EC_FAN_CTRL_ADDR, EC_FAN_DUTY_ADDR, EC_FAN_SPEED_UPPER_ADDR,
   EC_FAN_SPEED_LOWER_ADDR, EC_CPU_TEMP_ADDR}
PortModes == {EC_FAN_MODE_AUTO, EC_FAN_MODE_MANUAL}
PortDuties == {DutyVal(40)}

NextPort ==
  \/ \E c \in Callers, addr \in ReadAddrs : ec_read_byte(c, addr)
  \/ \E c \in Callers, mode \in PortModes :
       ec_write_byte(c, EC_FAN_CTRL_ADDR, mode)
  \/ \E c \in Callers, duty \in PortDuties :
       ec_write_byte(c, EC_FAN_DUTY_ADDR, duty)
  \/ ec_read_byte(TimerContext, EC_CPU_TEMP_ADDR)
  \/ \E duty \in PortDuties :
       ec_write_byte(TimerContext, EC_FAN_DUTY_ADDR, duty)
  \/ \E who \in Contexts : ec_byte_lock(who)
  \/ \E who \in Contexts : ec_byte_select_upper(who)
  \/ \E who \in Contexts : ec_byte_select_lower(who)
  \/ \E who \in Contexts : ec_byte_transfer(who)
  \/ \E who \in Contexts : ec_byte_unlock(who)
  \/ \E e \in EcSamples : ec_measure(e[1], e[2], e[3])

SpecPort == InitFan /\ [][NextPort]_vars

\* C30: a context between mutex_lock and mutex_unlock of ec_read_byte or
\* ec_write_byte owns ec_mutex (so there is one at most), the address bytes it
\* selected are still latched when it selects the next and when it transfers,
\* and the transfer reached the register it asked for
C30_PortSequenceAtomic ==
  \A who \in Contexts :
    /\ Io(who).pc \in {"upper", "lower", "data", "unlock"}
         => ec.ec_mutex = who
    /\ Io(who).pc \in {"lower", "data"}
         => ec.addr_upper = (Io(who).addr \div 256) % 256
    /\ Io(who).pc = "data" => EcLatched(ec) = Io(who).addr
    /\ Io(who).pc = "unlock" => Io(who).at = Io(who).addr

\* the timer callback is about to read the temperature while one caller
\* waits to write the control register and another to read a register that
\* is not the temperature
C30_Witness ==
  /\ Io(TimerContext).pc = "data"
  /\ Io(TimerContext).fn = "ec_read_byte"
  /\ Io(1).pc = "lock" /\ Io(1).fn = "ec_write_byte"
  /\ Io(NCallers).pc = "lock" /\ Io(NCallers).fn = "ec_read_byte"
  /\ Io(NCallers).addr # Io(TimerContext).addr

(***************************************************************************)
(* The curve evaluator at duplicated temperatures and on wide and falling  *)
(* tables (SpecCurve).                                                     *)
(***************************************************************************)
\* points i and i + 1 have the measured temperature, which is below the
\* highest point
ZeroWidthAt(i) ==
  /\ data.curve_temp[i] = data.curve_temp[i + 1]
  /\ fan_curve_timer.current_temp = data.curve_temp[i]
  /\ ULess(fan_curve_timer.current_temp, data.curve_temp[FAN_CURVE_POINTS])

\* the intervals that hold the tick's temperature
Holding_intervals ==
  Intervals(data.curve_temp, fan_curve_timer.current_temp)

\* C32 as stated: at a zero-width interval i that the measured temperature
\* equals, the evaluator outputs pwm[i].
C32_ZeroWidthLowerPoint ==
  Evaluated =>
    \A i \in 1..(FAN_CURVE_POINTS - 1) :
      ZeroWidthAt(i) => fan_curve_timer.pwm = data.curve_pwm[i]

\* C32 amended: at a zero-width interval i that the measured temperature
\* equals, the evaluator outputs the value of the first interval in stored
\* order that holds the temperature, which is never interval i: pwm[i+1] when
\* it is the interval starting at point i + 1, pwm[0] when there is none.
C32_ZeroWidthSkipped ==
  Evaluated =>
    \A i \in 1..(FAN_CURVE_POINTS - 1) :
      ZeroWidthAt(i) =>
        /\ fan_curve_timer.pwm =
             Interpolated(data.curve_temp, data.curve_pwm,
                          fan_curve_timer.current_temp)
        /\ Holding_intervals = {} => fan_curve_timer.pwm = data.curve_pwm[1]
        /\ Holding_intervals # {} =>
             /\ Lowest(Holding_intervals) # i
             /\ Lowest(Holding_intervals) = i + 1
                  => fan_curve_timer.pwm = data.curve_pwm[i + 1]

\* temperatures 10, 10, 20 and a measured 10: the tick put out the pwm of the
\* second point, which is not that of the first
C32_Witness ==
  /\ Evaluated
  /\ ZeroWidthAt(1)
  /\ Lowest(Holding_intervals) = 2
  /\ fan_curve_timer.pwm = data.curve_pwm[2]
  /\ data.curve_pwm[2] # data.curve_pwm[1]

Between(x, a, b) == (a <= x /\ x <= b) \/ (b <= x /\ x <= a)

\* C34: the percentage a tick computes is a stored pwm point or lies between
\* the two points of the interval it chose, so it is within 0..100 and
\* set_fan_duty_internal accepts it; the duty byte written is
\* percent * 255 / 100, within 0..255
C34_DutyWithinBracket ==
  Evaluated =>
    LET pwm == fan_curve_timer.pwm
        tab == data.curve_pwm
    IN
    /\ IF UGeq(fan_curve_timer.current_temp, data.curve_temp[FAN_CURVE_POINTS])
       THEN pwm = tab[FAN_CURVE_POINTS]
       ELSE IF Holding_intervals = {} THEN pwm = tab[1]
       ELSE Between(pwm, tab[Lowest(Holding_intervals)],
                    tab[Lowest(Holding_intervals) + 1])
    /\ pwm \in 0..100
    /\ set_fan_duty_internal(ec, pwm)[2] = 0
    /\ ec.duty = (pwm * 255) \div 100
    /\ ec.duty \in 0..255

\* a tick interpolated strictly inside a falling segment
C34_Witness ==
  /\ Evaluated
  /\ Holding_intervals # {}
  /\ data.curve_pwm[Lowest(Holding_intervals) + 1] < fan_curve_timer.pwm
  /\ fan_curve_timer.pwm < data.curve_pwm[Lowest(Holding_intervals)]
  /\ ec.duty = (fan_curve_timer.pwm * 255) \div 100

(***************************************************************************)
(* SpecDuty: stores to fan1_duty and reads of it from concurrent callers,  *)
(* the clock, and an EC that keeps the duty byte it was given.             *)
(***************************************************************************)
DutyBufs == {"1", "100", "101"}

NextDuty ==
  \/ \E c \in Callers, buf \in DutyBufs : fan1_duty_store(c, buf)
  \/ \E c \in Callers : set_fan_duty(c)
  \/ \E c \in Callers : zotac_fan_update_device(c, "fan1_duty_show")
  \/ \E c \in Callers : zotac_fan_update_device_lock(c)
  \/ \E c \in Callers : zotac_fan_update_device_read(c)
  \/ \E c \in Callers : zotac_fan_update_device_unlock(c)
  \/ \E c \in Callers : zotac_show_ret(c)
  \/ \E c \in Callers : ZFinish(c)
  \/ jiffies_tick
  \/ zotac_fan_probe

SpecDuty == InitFan /\ [][NextDuty]_vars

\* the percentages whose byte the EC and the cache hold
DutyWritten == {p \in 0..100 : ec.duty = DutyVal(p) /\ data.fan_duty = DutyVal(p)}

\* C40: when the EC and the cache hold the byte that a write of p in 0..100
\* left there, fan1_duty reads p
C40_DutyRoundTrip ==
  [][\A c \in Callers :
       (zotac_show_ret(c) /\ zc[c].fn = "fan1_duty_show")
         => \A p \in DutyWritten : zc'[c].vals = <<p>>]_vars

\* C31: a reader performs the EC read sequence only on a cache that is still
\* stale when it holds update_lock, so of the readers that found one stale
\* cache a single one reads the EC
C31_OneRefreshPerStaleCache ==
  [][\A c \in Callers :
       zotac_fan_update_device_read(c) => Stale(data, zc[c].now)]_vars

(***************************************************************************)
(* SpecLocks: the handlers and the tick with their EC accesses made port   *)
(* by port inside them, so that update_lock and ec_mutex nest as in the    *)
(* code: a reader and a duty store access the EC while they hold           *)
(* update_lock, and so does the tick; a mode store accesses it with no     *)
(* lock held.  A step that stands for EC accesses waits until the context  *)
(* is outside ec_read_byte and ec_write_byte.  The clock stands still: the *)
(* cache is stale until its first refresh.                                 *)
(***************************************************************************)
\* where the context is in its handler or callback
CtxPc(who) == IF who = TimerContext THEN fan_curve_timer.pc ELSE zc[who].pc

OutsideEc(who) == Io(who).pc = "none"

LockAddrs == {EC_FAN_CTRL_ADDR, EC_CPU_TEMP_ADDR}

\* the EC accesses of the handlers and of the tick
EcAccess ==
  \/ \E c \in Callers, addr \in LockAddrs :
       zc[c].pc = "upd_read" /\ ec_read_byte(c, addr)
  \/ \E c \in Callers :
       /\ zc[c].pc = "sfd_write"
       /\ ec_write_byte(c, EC_FAN_DUTY_ADDR, DutyVal(zc[c].arg))
  \/ \E c \in Callers :
       /\ zc[c].pc = "sfm_write"
       /\ ec_write_byte(c, EC_FAN_CTRL_ADDR, CtrlValue(zc[c].arg))
  \/ /\ fan_curve_timer.pc = "sample"
     /\ ec_read_byte(TimerContext, EC_CPU_TEMP_ADDR)
  \/ /\ fan_curve_timer.pc = "eval"
     /\ ec_write_byte(TimerContext, EC_FAN_DUTY_ADDR,
                      DutyVal(CurvePwm(data.curve_temp, data.curve_pwm,
                                       fan_curve_timer.current_temp)))

EcSteps ==
  \/ \E who \in Contexts : ec_byte_lock(who)
  \/ \E who \in Contexts : ec_byte_select_upper(who)
  \/ \E who \in Contexts : ec_byte_select_lower(who)
  \/ \E who \in Contexts : ec_byte_transfer(who)
  \/ \E who \in Contexts : ec_byte_unlock(who)

\* the steps of the handlers and of the tick that are under way
Progress ==
  \/ EcAccess
  \/ EcSteps
  \/ \E c \in Callers : OutsideEc(c) /\ set_fan_mode(c)
  \/ \E c \in Callers : OutsideEc(c) /\ set_fan_duty(c)
  \/ \E c \in Callers : zotac_fan_update_device_lock(c)
  \/ \E c \in Callers : OutsideEc(c) /\ zotac_fan_update_device_read(c)
  \/ \E c \in Callers : zotac_fan_update_device_unlock(c)
  \/ \E c \in Callers : zotac_show_ret(c)
  \/ OutsideEc(TimerContext) /\ fan_curve_function

\* caller 1 reads the temperature and stores a duty, the last caller turns
\* Curve on
NextLocks ==
  \/ fan1_mode_store(NCallers, "2")
  \/ fan1_duty_store(1, "100")
  \/ zotac_fan_update_device(1, "temp1_input_show")
  \/ Progress
  \/ \E c \in Callers : ZFinish(c)
  \/ timer_fire

SpecLocks == InitFan /\ [][NextLocks]_vars

\* the context is inside a handler or the callback
Busy(who) == CtxPc(who) \notin {"idle", "done"}

\* the context is at a mutex_lock(&data->update_lock)
AtUpdateLock(who) == CtxPc(who) \in {"upd_lock", "sfd_lock", "lock"}

\* the context is between mutex_lock and mutex_unlock of update_lock
HoldsUpdateLock(who) ==
  CtxPc(who) \in {"upd_read", "upd_unlock", "sfd_write", "sfd_unlock",
                  "sample", "eval", "unlock"}

\* C38: a context that owns or waits for ec_mutex is not at an acquisition
\* of update_lock, a context at an acquisition of either lock does not hold
\* that lock, and while any handler or tick is under way one of them can take
\* a step
C38_LockOrder ==
  /\ \A who \in Contexts :
       /\ Io(who).pc # "none" => ~AtUpdateLock(who)
       /\ AtUpdateLock(who) => ~HoldsUpdateLock(who)
       /\ Io(who).pc = "lock" => ec.ec_mutex # who
       /\ HoldsUpdateLock(who) => update_lock # "free"
  /\ (\E who \in Contexts : Busy(who)) => ENABLED Progress

\* the tick reads the temperature inside update_lock and ec_mutex while one
\* caller waits for update_lock and another, in a mode store, for ec_mutex
C38_Witness ==
  /\ fan_curve_timer.pc = "sample"
  /\ Io(TimerContext).pc = "data"
  /\ update_lock = "timer" /\ ec.ec_mutex = TimerContext
  /\ \E c \in Callers : AtUpdateLock(c)
  /\ \E c \in Callers : zc[c].pc = "sfm_write" /\ Io(c).pc = "lock"

(***************************************************************************)
(* cfg_setup with a cached identity (SpecIdent).                           *)
(***************************************************************************)
\* C36: when cfg_setup calls mcu_id_get (mcu_version_get) with a non-zero id
\* (version) cached, no identity request is made and cfg_setup goes on to
\* its next step instead of returning
C36_CachedIdentitySatisfied ==
  [][\A t \in Threads :
       /\ (cfg_setup(t) /\ mcu_id # Zeros(12))
            => (th'[t].tx = "none" /\ th'[t].pc # "done" /\ th'[t].index = 2)
       /\ (CallsVersionGet(t) /\ mcu_ver # Zeros(4))
            => (th'[t].tx = "none" /\ th'[t].pc # "done" /\ th'[t].index = 3)]_vars

(***************************************************************************)
(* SpecProbe: the first bind of the configuration interface, statement by  *)
(* statement, while a user process opens the attributes as soon as they    *)
(* exist.  The probing context's index is the number of the steps of       *)
(* legos_cfg_probe it has made; drvdata is a zero-filled static until      *)
(* then.                                                                   *)
(***************************************************************************)
\* the steps of legos_cfg_probe that have been made: 1 mutex_init,
\* hid_set_drvdata and drvdata.hdev; 2 sysfs_create_groups of the top-level
\* groups; 3 devm_led_classdev_multicolor_register and devm_device_add_group
\* of rgb_attr_group; 4 drvdata.led_cdev; 5 init_completion
ProbeIndex ==
  IF th[1].fn = "legos_cfg_probe" /\ th[1].pc # "idle" THEN th[1].index ELSE 0

GroupsCreated == 2
RgbGroupAdded == 3
LedCdevSet == 4
CompletionInit == 5

\* legos_cfg_probe is entered: mutex_init, hid_set_drvdata, drvdata.hdev
legos_cfg_probe(t) ==
  /\ Ready(t)
  /\ \A p \in Threads : th[p].fn = "none"
  /\ cfg_mutex' = 0
  /\ th' = [th EXCEPT ![t] =
              [IdleRec EXCEPT !.fn = "legos_cfg_probe", !.pc = "probe",
                              !.index = 1]]
  /\ UNCHANGED <<msi, zvars, hdev_ep, done, last_cmd_ret, last_cmd_val, idvars,
                 rgbvars, wire, dev, rx_ret>>

\* the next statement of legos_cfg_probe; after init_completion the work is
\* scheduled and probe returns 0
legos_cfg_probe_step(t) ==
  /\ th[t].pc = "probe"
  /\ th[t].fn = "legos_cfg_probe"
  /\ done' = IF th[t].index + 1 = CompletionInit THEN 0 ELSE done
  /\ th' = [th EXCEPT ![t] =
              IF th[t].index < CompletionInit
              THEN [@ EXCEPT !.index = @ + 1]
              ELSE Return(@, 0, "")]
  /\ UNCHANGED <<msi, zvars, hdev_ep, cfg_mutex, last_cmd_ret, last_cmd_val, idvars,
                 rgbvars, wire, dev, rx_ret>>

\* wait_for_completion_interruptible_timeout on a completion that
\* init_completion has not set up: the wait queue's list head is not
\* linked, and besides ending as a wait does, the wait can fault, which
\* kills the caller inside mutex_lock .. mutex_unlock
mcu_property_out_wait_oops(t) ==
  /\ th[t].pc = "wait"
  /\ ProbeIndex < CompletionInit
  /\ th' = [th EXCEPT ![t].pc = "oops", ![t].woke = "oops"]
  /\ UNCHANGED <<msi, zvars, hdev_ep, cfg_mutex, done, last_cmd_ret, last_cmd_val,
                 idvars, rgbvars, wire, dev, rx_ret>>

\* the response is a lighting profile: legos_cfg_raw_event goes through
\* drvdata.led_cdev
UsesLedCdev(f) ==
  f.cmd = GET_LIGHT_CFG /\ f.sub_cmd \in USR_LIGHT_PROFILE_1..USR_LIGHT_PROFILE_3

\* legos_cfg_raw_event with drvdata.led_cdev still NULL or the completion
\* not set up: besides ending as it does otherwise, the handler can fault in
\* interrupt context, which stops the machine
legos_cfg_raw_event_oops ==
  /\ wire # <<>>
  /\ \/ ProbeIndex < CompletionInit
     \/ UsesLedCdev(Head(wire).frame) /\ ProbeIndex < LedCdevSet
  /\ th' = [t \in Threads |-> [th[t] EXCEPT !.pc = "oops"]]
  /\ wire' = <<>>
  /\ UNCHANGED <<msi, zvars, hdev_ep, cfg_mutex, done, last_cmd_ret, last_cmd_val,
                 idvars, rgbvars, dev, rx_ret>>

ProbeBufs == {"dinput"}
ProbeProfiles == {"1"}
ProbeBytes == {1}

NextProbe ==
  \/ legos_cfg_probe(1)
  \/ legos_cfg_probe_step(1)
  \/ /\ ProbeIndex >= GroupsCreated
     /\ \E buf \in ProbeBufs :
          property_store(NThreads, "gamepad_property_store", CFG_GAMEPAD_MODE,
                         buf)
  \/ /\ ProbeIndex >= RgbGroupAdded
     /\ \/ \E buf \in ProbeProfiles : rgb_profile_store(NThreads, buf)
        \/ rgb_attr_show(NThreads, "rgb_effect_show")
  \/ Engine(NThreads)
  \/ mcu_property_out_wait_oops(NThreads)
  \/ property_store_ret(NThreads)
  \/ rgb_cfg_call_ret(NThreads)
  \/ rgb_store_ret(NThreads)
  \/ rgb_show_ret(NThreads)
  \/ rgb_show_val(NThreads)
  \/ Finish(NThreads)
  \/ \E b \in ProbeBytes : DeviceRespond(b, GO_S_PACKET_SIZE)
  \/ legos_cfg_raw_event_oops

SpecProbe == InitFan /\ [][NextProbe]_vars

\* C37: a frame is transmitted and the completion is waited on only once
\* legos_cfg_probe has made mutex_init, set led_cdev and made
\* init_completion, and a response that goes through led_cdev is handled only
\* once led_cdev is set
C37_NoCommandBeforeProbeInit ==
  [][/\ \A t \in Threads :
          /\ (th[t].pc = "send" /\ th'[t].pc = "wait")
               => ProbeIndex >= CompletionInit
          /\ th[t].pc = "wait" => ProbeIndex >= CompletionInit
     /\ \A b \in ProbeBytes :
          (DeviceRespond(b, GO_S_PACKET_SIZE)
             /\ UsesLedCdev(Response(Head(wire).frame, b)))
            => ProbeIndex >= LedCdevSet]_vars

(***************************************************************************)
(* SpecRgbFail: one caller notes the cached lighting state and then calls  *)
(* an RGB setter; the transport fails or not, and the MCU acknowledges the *)
(* SET, refuses it, answers late or not at all.  The caller's prev is the  *)
(* state it noted.                                                         *)
(***************************************************************************)
RgbSetterFns == RgbStoreFns \cup {"legos_rgb_color_set"}

\* drvdata.rgb_effect, rgb_speed, led_cdev->brightness, rgb_mode, rgb_profile
RgbCache == <<rgb_effect, rgb_speed, brightness, rgb_mode, rgb_profile>>

\* the caller notes the cached state before its call
RgbNote(t) ==
  /\ Ready(t)
  /\ th[t].prev = <<>>
  /\ th' = [th EXCEPT ![t].prev = RgbCache]
  /\ UNCHANGED <<msi, zvars, hdev_ep, cfg_mutex, done, last_cmd_ret, last_cmd_val,
                 idvars, rgbvars, wire, dev, rx_ret>>

FailEffects == {"rainbow"}
FailSpeeds == {"100"}
FailModes == {"custom", "dynamic"}
FailProfiles == {"3"}
FailBrightness == {100}
FailBytes == {0, 1}

NextRgbFail ==
  \/ RgbNote(1)
  \/ /\ th[1].prev # <<>>
     /\ \/ \E buf \in FailEffects : rgb_effect_store(1, buf)
        \/ \E buf \in FailSpeeds : rgb_speed_store(1, buf)
        \/ \E b \in FailBrightness : legos_rgb_color_set(1, b)
        \/ \E buf \in FailModes : rgb_mode_store(1, buf)
        \/ \E buf \in FailProfiles : rgb_profile_store(1, buf)
  \/ rgb_attr_store(1)
  \/ Engine(1)
  \/ rgb_cfg_call_ret(1)
  \/ rgb_store_ret(1)
  \/ legos_rgb_color_set_ret(1)
  \/ Finish(1)
  \/ \E b \in FailBytes : DeviceRespond(b, GO_S_PACKET_SIZE)
  \/ DeviceDrop

SpecRgbFail == InitFan /\ [][NextRgbFail]_vars

\* C35: when an RGB setter has ended with an error, the cached lighting
\* state is the one the caller noted before the call
C35_ErrorLeavesRgbCache ==
  \A t \in Threads :
    (th[t].pc = "done" /\ th[t].fn \in RgbSetterFns /\ th[t].result < 0
       /\ th[t].prev # <<>>)
      => RgbCache = th[t].prev

(***************************************************************************)
(* SpecMsiDebug: two processes write and read the debugfs file get_fan, at *)
(* any offset and with any length, the firmware answering or failing in    *)
(* each of the ways msi_wmi_platform_query tells apart, while a fan table  *)
(* store changes what the firmware answers.                                *)
(***************************************************************************)
DebugOffsets == {0, 1}
DebugInputs ==
  {<<MSI_PLATFORM_FAN_SUBFEATURE_CPU_FAN_TABLE>> \o Zeros(MSI_BUFFER_LENGTH - 1),
   Zeros(MSI_BUFFER_LENGTH - 1), Zeros(MSI_BUFFER_LENGTH + 1)}
DebugTableBufs == {"256"}

NextMsiDebug ==
  \/ \E c \in Callers :
       \/ \E offset \in DebugOffsets, input \in DebugInputs, user_ok \in BOOLEAN,
             o \in FwOutcomes :
            msi_wmi_platform_debugfs_write(c, offset, input, user_ok, o)
       \/ msi_wmi_platform_debugfs_commit(c)
       \/ msi_wmi_platform_debugfs_show(c)
       \/ MsiFinish(c)
  \/ \E buf \in DebugTableBufs : msi_wmi_platform_fan_table_store(NCallers, 1, buf)
  \/ msi_write_lock(NCallers)
  \/ msi_store_get(NCallers, "ok")
  \/ msi_store_set(NCallers, "ok")

SpecMsiDebug == InitFan /\ [][NextMsiDebug]_vars

\* the reply the firmware gives to Get_Fan now
GetFanReply == <<1>> \o msi.fw[MSI_PLATFORM_SET_FAN]

\* C33: a debugfs write at an offset other than 0 or of a length other than
\* 32 fails with EINVAL without a firmware call; the write goes on to replace
\* the cached buffer exactly when the firmware call succeeded, and then with
\* that call's reply; nothing else changes the cached buffer, which is what
\* a read returns
C33_DebugfsWriteThenCache ==
  [][/\ \A c \in Callers :
          /\ \A offset \in DebugOffsets, input \in DebugInputs,
                user_ok \in BOOLEAN, o \in FwOutcomes :
               msi_wmi_platform_debugfs_write(c, offset, input, user_ok, o)
                 => /\ msi'.buffer = msi.buffer
                    /\ (offset # 0 \/ Len(input) # 32)
                         => /\ msi'.call[c].pc = "done"
                            /\ msi'.call[c].result = -EINVAL
                            /\ msi'.call[c].queries = 0
                            /\ msi'.fw = msi.fw
                    /\ msi'.call[c].pc = "commit"
                         <=> (offset = 0 /\ Len(input) = 32 /\ user_ok /\ o = "ok")
                    /\ msi'.call[c].pc = "commit"
                         => msi'.call[c].buffer = GetFanReply
                    /\ msi'.call[c].pc # "commit" => msi'.call[c].result < 0
          /\ msi_wmi_platform_debugfs_commit(c)
               => /\ msi'.buffer = msi.call[c].buffer
                  /\ msi'.call[c].result = 32
          /\ msi_wmi_platform_debugfs_show(c)
               => msi'.call[c].buffer = msi.buffer
     /\ msi'.buffer # msi.buffer
          => \E c \in Callers : msi_wmi_platform_debugfs_commit(c)]_vars

\* a write has failed in the firmware call after an earlier write had
\* cached a reply with the first fan table point in it: the cache still
\* holds that reply
C33_Witness ==
  \E c \in Callers :
    /\ msi.call[c].fn = "msi_wmi_platform_debugfs_write"
    /\ msi.call[c].pc = "done" /\ msi.call[c].result = -EIO
    /\ msi.call[c].queries = 1
    /\ msi.buffer[1] = 1 /\ msi.buffer[3] = 100

(***************************************************************************)
(* SpecMsiTable: two processes each make one store to a fan or temperature *)
(* table point or to pwm enable, the firmware answering or reporting       *)
(* status 0.                                                               *)
(***************************************************************************)
TablePoints == {1, 2}
TableBufs == {"128", "256"}
EnableVals == {1, 2, 3}
TableOutcomes == {"ok", "status"}

NextMsiTable ==
  \E c \in Callers :
    \/ \E index \in TablePoints, buf \in TableBufs :
         msi_wmi_platform_fan_table_store(c, index, buf)
    \/ \E index \in TablePoints, buf \in TableBufs :
         msi_wmi_platform_temp_table_store(c, index, buf)
    \/ \E val \in EnableVals : msi_wmi_platform_write(c, val)
    \/ msi_write_lock(c)
    \/ \E o \in TableOutcomes : msi_store_get(c, o)
    \/ \E o \in TableOutcomes : msi_store_set(c, o)

SpecMsiTable == InitFan /\ [][NextMsiTable]_vars

MsiTableFns ==
  {"msi_wmi_platform_fan_table_store", "msi_wmi_platform_temp_table_store"}

\* the caller's table store has returned count
Stored(c) ==
  /\ msi.call[c].fn \in MsiTableFns
  /\ msi.call[c].pc = "done"
  /\ msi.call[c].result = msi.call[c].count

\* the firmware's table holds the caller's value at the caller's point
Holds(c) ==
  msi.fw[msi.call[c].method + 1][msi.call[c].index + 1] = msi.call[c].val

\* the caller is between its Get_ and the end of its Set_
InReadModifyWrite(c) == msi.call[c].pc \in {"get", "set"}

\* C39: when two stores to different points of one table have both returned
\* count, and no third caller has stored to that table, the table holds both
\* values; and a caller between its Get_ and its Set_, a pwm enable write
\* included, owns write_lock, so no two are there
C39_NoLostUpdate ==
  /\ \A c, d \in Callers :
       (c # d /\ Stored(c) /\ Stored(d) /\ msi.call[c].fn = msi.call[d].fn
          /\ msi.call[c].index # msi.call[d].index
          /\ \A e \in Callers \ {c, d} : msi.call[e].fn # msi.call[c].fn)
         => (Holds(c) /\ Holds(d))
  /\ \A c \in Callers : InReadModifyWrite(c) => msi.write_lock = c

\* both stores to the fan table have returned count and the table holds 100
\* percent at both points
C39_Witness ==
  /\ \A c \in Callers :
       Stored(c) /\ msi.call[c].fn = "msi_wmi_platform_fan_table_store"
  /\ msi.call[1].index # msi.call[2].index
  /\ msi.fw[MSI_PLATFORM_SET_FAN][2] = 100
  /\ msi.fw[MSI_PLATFORM_SET_FAN][3] = 100

=============================================================================
